---- MODULE Spec2Model ----
(***************************************************************************)
(* Motion-and-sensor coordination layer of the Opentrons hardware package: *)
(* the probing procedures of hardware_control/tool_sensors.py composed     *)
(* with the move group runner, the sensor scheduler/driver and the         *)
(* messenger they drive.                                                   *)
(***************************************************************************)
EXTENDS Integers, Sequences, FiniteSets, TLC

\* ------------------------------------------------------------------ bounds
\* Largest number of raw samples one capture binding streams into its queue.
MaxSamples == 2
\* Largest magnitude of a distance or speed handed to _build_pass_step.
MaxMag == 2
\* Largest jaw displacement, in mm, assigned to a gripper.
MaxJawInput == 6
\* Largest number of files handed to one ProtocolReader call.
MaxFiles == 2
\* Largest volume, in uL, a runner is configured with or a pipette holds.
MaxVolume == 2
\* Largest message id read off the wire and looked up in BinaryMessageId.
MaxWireValue == 8

\* ------------------------------------------------------------- identities
NodeId == {"head_l", "head_r", "pipette_left", "pipette_right", "gripper",
           "gantry_x", "gantry_y"}
ProbeTarget == {"pipette_left", "pipette_right", "gripper"}
Calls == {"c1", "c2"}
\* Correlation keys of send_and_wait calls, and subscribers of the messenger.
WaiterIds == {"w1", "w2"}
ListenerIds == {"l1", "l2"}
\* Calls are named in the order they are made: c2 is the later call.
Earlier(p) == IF p = "c2" THEN {"c1"} ELSE {}

\* ------------------------------------------------------------- arithmetic
Abs(x) == IF x < 0 THEN -x ELSE x

RECURSIVE Gcd(_, _)
Gcd(a, b) == IF b = 0 THEN a ELSE Gcd(b, a % b)

\* abs(n / d) for d # 0, as the reduced fraction <<numerator, denominator>>.
AbsQuot(n, d) ==
    LET g == Gcd(Abs(n), Abs(d)) IN <<Abs(n) \div g, Abs(d) \div g>>

\* Faulty variant: the sign of x is dropped.
CopySignDropped(x) == 1

\* copysign(1.0, x) on an integer-valued x: +1 for x >= 0, -1 for x < 0.
CopySign1(x) == IF x < 0 THEN -1 ELSE 1

\* ----------------------------------------------------- _build_pass_step
IsPipette(n) == n \in {"pipette_left", "pipette_right"}
IsHead(n) == n \in {"head_l", "head_r"}

SeqRange(s) == {s[i] : i \in 1..Len(s)}

\* [ax for ax in movers if ax in [head_l, head_r]]
HeadMovers(movers) == SelectSeq(movers, IsHead)

PipettePresent(movers) == \E n \in SeqRange(movers) : IsPipette(n)

\* The mover whose distance and speed give duration= (line 51).
DurationMover(movers) == movers[1]

\* The exception, if any, that _build_pass_step raises on these arguments.
BuildRaises(movers, distance, speed) ==
    IF PipettePresent(movers) /\ HeadMovers(movers) = <<>> THEN "IndexError"
    ELSE IF speed[DurationMover(movers)] = 0 THEN "ZeroDivisionError"
    ELSE "none"

\* primary_mover as lines 41-44 choose it.
PrimaryMover(movers) ==
    IF PipettePresent(movers) THEN HeadMovers(movers)[1] ELSE movers[1]

\* create_step: one single-axis step per present node, all with the
\* group's duration and stop condition.
create_step(distance, velocity, duration, present_nodes, stop_condition) ==
    [ax \in SeqRange(present_nodes) |->
        [distance |-> distance[ax], velocity |-> velocity[ax],
         duration |-> duration, stop_condition |-> stop_condition]]

\* Faulty variant: the steps are built with no stop condition.
BuildPassStepNoStop(movers, distance, speed) ==
    create_step(
        [ax \in SeqRange(movers) |-> Abs(distance[ax])],
        [ax \in SeqRange(movers) |-> speed[ax] * CopySign1(distance[ax])],
        AbsQuot(distance[DurationMover(movers)], speed[DurationMover(movers)]),
        movers,
        "none")

\* Lines 45-54: the step handed to create_step.
BuildPassStep(movers, distance, speed) ==
    create_step(
        [ax \in SeqRange(movers) |-> Abs(distance[ax])],
        [ax \in SeqRange(movers) |-> speed[ax] * CopySign1(distance[ax])],
        AbsQuot(distance[DurationMover(movers)], speed[DurationMover(movers)]),
        movers,
        "sync_line")

\* ------------------------------------------------- inputs of the calls
ToolChoices == {"pipette_left"}
MoverChoices == {"head_l", "gantry_x"}
SensorIds == {"S0"}
DistanceChoices == {1}
SpeedChoices == {0, 1}

\* ------------------------------------------------------------------ state
VARIABLES
    pc,        \* where each call of a procedure stands
    args,      \* the arguments of each call
    thr,       \* what the threshold send of each call came back with
    sends,     \* how many threshold sends each call made
    runner,    \* the MoveGroupRunner each call built
    outcome,   \* how the awaited run ended, carried through the scope exit
    bindings,  \* the sensor identities armed on the bus, with their owner
    queue,     \* the capture queue of each call
    produced,  \* the samples streamed into each call's queue so far
    result,    \* what each capacitive_pass returned
    cancelReq, \* calls whose task has been cancelled
    everBound, \* calls that entered their sensor binding
    bIn,       \* the arguments of a _build_pass_step call on its own
    bOut,      \* what that call gave: a step, or the error it raised
    msgState,  \* the script's CanMessenger: created, running or stopped
    waiters,   \* the send_and_wait waiter of each correlation key
    listeners, \* the subscriptions registered with the messenger
    scriptPc,  \* where the tip pick-up script's run() stands
    scriptExit, \* how the body of run() ended
    stopTook,  \* the waiters and subscriptions stop() found outstanding
    gripper,   \* the attached Gripper object, if any
    gOut,      \* the last operation on the gripper and what it gave
    rdPc,      \* where the ProtocolReader call in progress stands
    rdCall,    \* that call: the method, its files, what its helpers do
    rdDir,     \* the files present in the target directory
    rdOut,     \* what the last finished call returned or raised
    rdLocals,  \* the loop variables of read_saved_prevalidated
    lqPc,      \* where the LiquidSettingsRunner and its run() stand
    lqCfg,     \* the LiquidSettingsRunnerConfig the runner was given
    lqPip,     \* the pipette: its current volume and its flow rates
    lqLog,     \* the pipetting operations issued to the pipette so far
    lqEntry,   \* the pipette's flow rates when _run_dispense was entered
    regIn,     \* the message kinds and the wire value under lookup
    regOut     \* what the lookups in BinaryMessageId gave

mainVars == <<pc, args, thr, sends, runner, outcome, bindings, queue, produced,
              result, cancelReq, everBound>>
buildVars == <<bIn, bOut>>
msgVars == <<msgState, waiters, listeners, scriptPc, scriptExit, stopTook>>
vars == <<pc, args, thr, sends, runner, outcome, bindings, queue, produced,
          result, cancelReq, everBound, bIn, bOut,
          msgState, waiters, listeners, scriptPc, scriptExit, stopTook,
          gripper, gOut, rdPc, rdCall, rdDir, rdOut, rdLocals,
          lqPc, lqCfg, lqPip, lqLog, lqEntry, regIn, regOut>>
gripVars == <<gripper, gOut>>
readVars == <<rdPc, rdCall, rdDir, rdOut, rdLocals>>
liqVars == <<lqPc, lqCfg, lqPip, lqLog, lqEntry>>
regVars == <<regIn, regOut>>

\* What each part of the model leaves alone.
notMain == <<buildVars, msgVars, gripVars, readVars, liqVars, regVars>>
notBuild == <<mainVars, msgVars, gripVars, readVars, liqVars, regVars>>
notMsg == <<mainVars, buildVars, gripVars, readVars, liqVars, regVars>>
notGrip == <<mainVars, buildVars, msgVars, readVars, liqVars, regVars>>
notRead == <<mainVars, buildVars, msgVars, gripVars, liqVars, regVars>>
notLiq == <<mainVars, buildVars, msgVars, gripVars, readVars, regVars>>
notReg == <<mainVars, buildVars, msgVars, gripVars, readVars, liqVars>>

NoArgs == [proc |-> "none"]
NoRunner == [state |-> "None"]

Made(p) == \A q \in Earlier(p) : pc[q] # "idle"

Probing == {"liquid_probe", "capacitive_probe", "capacitive_pass"}
Terminal == {"returned", "raised", "cancelled"}

MainInit ==
    /\ pc = [p \in Calls |-> "idle"]
    /\ args = [p \in Calls |-> NoArgs]
    /\ thr = [p \in Calls |-> "unsent"]
    /\ sends = [p \in Calls |-> 0]
    /\ runner = [p \in Calls |-> NoRunner]
    /\ outcome = [p \in Calls |-> "none"]
    /\ bindings = {}
    /\ queue = [p \in Calls |-> <<>>]
    /\ produced = [p \in Calls |-> <<>>]
    /\ result = [p \in Calls |-> <<>>]
    /\ cancelReq = {}
    /\ everBound = {}

\* ------------------------------------------------------ MoveGroupRunner
GroupNodes(group) == DOMAIN group

RECURSIVE AllNodes(_)
AllNodes(groups) ==
    IF groups = <<>> THEN {} ELSE GroupNodes(Head(groups)) \cup AllNodes(Tail(groups))

\* MoveGroupRunner(move_groups=...): state Built, nothing sent. Every group
\* the code builds holds one step, so a group is that step: node -> move.
NewRunner(groups) ==
    [state |-> "Built",
     groups |-> groups,
     idx |-> 0,
     started |-> [i \in 1..Len(groups) |-> {}],
     done |-> [i \in 1..Len(groups) |-> {}],
     stopSent |-> {},
     node |-> [n \in AllNodes(groups) |-> "idle"],
     err |-> [kind |-> "none", node |-> "none"]]

\* ---------------------------------------------- sensor scheduler/driver
\* The identities bound on the bus are kept with the one messenger every
\* call is handed, not with the SensorScheduler / SensorDriver each call
\* makes for itself (lines 69, 110, 143).
\* What a threshold send can come back with: the accepted value, the
\* rejection raised as an error, or no value (the case capacitive_probe
\* tests with "if not threshold", lines 120-121).
ThresholdOutcomes == {"accepted", "ThresholdRejectedError", "None"}

IsBound(id) == \E b \in bindings : b.id = id
Holds(p) == \E b \in bindings : b.owner = p

\* Entering a binding scope: arms the identity for its owner.
Arm(p, id, mode) == bindings \cup {[id |-> id, owner |-> p, mode |-> mode]}
\* Leaving a binding scope: disarms what the owner armed.
Disarm(p) == {b \in bindings : b.owner # p}

\* ------------------------------------------------- sensor identities
\* PressureSensor.build(sensor_id=sensor_id, node_id=tool, ...)
PressureIdentity(a) == <<"pressure", a.sensor_id, a.tool>>
\* Faulty variant: the moving node taken for the sensor's node.
CapacitiveIdentityOfMover(a) == <<"capacitive", a.sensor_id, a.mover>>
\* SensorInformation(SensorType.capacitive, sensor_id, tool)
CapacitiveIdentity(a) == <<"capacitive", a.sensor_id, a.tool>>

\* ---------------------------------------------------------- liquid_probe
\* Lines 69-83: build the pass group of [mount, tool], then start the
\* threshold send.
LiquidProbe(p) ==
    /\ pc[p] = "idle"
    /\ Made(p)
    /\ \E tool \in ToolChoices, mount \in MoverChoices, sid \in SensorIds,
          pd \in DistanceChoices, ps \in SpeedChoices,
          md \in DistanceChoices, ms \in SpeedChoices :
        LET movers == <<mount, tool>>
            distance == (mount :> md) @@ (tool :> pd)
            speed == (mount :> ms) @@ (tool :> ps)
        IN  IF BuildRaises(movers, distance, speed) # "none"
            THEN /\ pc' = [pc EXCEPT ![p] = "raised"]
                 /\ args' = [args EXCEPT ![p] =
                        [proc |-> "liquid_probe", tool |-> tool, mover |-> mount,
                         sensor_id |-> sid]]
                 /\ UNCHANGED <<thr, sends>>
            ELSE /\ pc' = [pc EXCEPT ![p] = "await_threshold"]
                 /\ args' = [args EXCEPT ![p] =
                        [proc |-> "liquid_probe", tool |-> tool, mover |-> mount,
                         sensor_id |-> sid,
                         pass_group |-> BuildPassStep(movers, distance, speed)]]
                 /\ thr' = [thr EXCEPT ![p] = "pending"]
                 /\ sends' = [sends EXCEPT ![p] = @ + 1]
    /\ UNCHANGED <<runner, outcome, bindings, queue, produced, result, cancelReq,
                   everBound>>
    /\ UNCHANGED notMain

\* Line 83: the awaited send returns or raises; the value it returns is
\* not looked at.
LiquidProbeAfterThreshold(out) ==
    IF out = "ThresholdRejectedError" THEN "raised" ELSE "enter_bind"

\* Lines 83-84: the send ends; the runner is made of the one pass group.
LiquidProbeThreshold(p) ==
    /\ pc[p] = "await_threshold"
    /\ args[p].proc = "liquid_probe"
    /\ \E out \in ThresholdOutcomes :
        /\ thr' = [thr EXCEPT ![p] = out]
        /\ pc' = [pc EXCEPT ![p] = LiquidProbeAfterThreshold(out)]
        /\ runner' = [runner EXCEPT ![p] =
                IF LiquidProbeAfterThreshold(out) = "raised" THEN @
                ELSE NewRunner(<<args[p].pass_group>>)]
    /\ UNCHANGED <<sends, args, outcome, bindings, queue, produced, result, cancelReq,
                   everBound>>
    /\ UNCHANGED notMain

\* Lines 85-89: enter bind_output, then await runner.run inside it.
LiquidProbeBind(p) ==
    /\ pc[p] = "enter_bind"
    /\ args[p].proc = "liquid_probe"
    /\ IF IsBound(PressureIdentity(args[p]))
       THEN /\ pc' = [pc EXCEPT ![p] = "raised"]
            /\ UNCHANGED <<bindings, everBound>>
       ELSE /\ pc' = [pc EXCEPT ![p] = "await_run"]
            /\ bindings' = Arm(p, PressureIdentity(args[p]), "output")
            /\ everBound' = everBound \cup {p}
    /\ UNCHANGED <<sends, args, thr, runner, outcome, queue, produced, result, cancelReq>>
    /\ UNCHANGED notMain

\* ------------------------------------------------------ capacitive_probe
\* Faulty variant: the step is built and the binding entered with no
\* threshold sent.
CapacitiveProbeNoSend(p) ==
    /\ pc[p] = "idle"
    /\ Made(p)
    /\ \E tool \in ToolChoices, mover \in MoverChoices, sid \in SensorIds :
        /\ args' = [args EXCEPT ![p] =
                    [proc |-> "capacitive_probe", tool |-> tool, mover |-> mover,
                     sensor_id |-> sid]]
        /\ runner' = [runner EXCEPT ![p] =
                NewRunner(<<BuildPassStep(<<mover>>, (mover :> 1), (mover :> 1))>>)]
    /\ pc' = [pc EXCEPT ![p] = "enter_bind"]
    /\ UNCHANGED <<thr, sends, outcome, bindings, queue, produced, result,
                   cancelReq, everBound>>
    /\ UNCHANGED notMain

\* Lines 110-119: start the threshold send.
CapacitiveProbe(p) ==
    /\ pc[p] = "idle"
    /\ Made(p)
    /\ \E tool \in ToolChoices, mover \in MoverChoices, sid \in SensorIds :
        args' = [args EXCEPT ![p] =
                    [proc |-> "capacitive_probe", tool |-> tool, mover |-> mover,
                     sensor_id |-> sid]]
    /\ pc' = [pc EXCEPT ![p] = "await_threshold"]
    /\ thr' = [thr EXCEPT ![p] = "pending"]
    /\ sends' = [sends EXCEPT ![p] = @ + 1]
    /\ UNCHANGED <<runner, outcome, bindings, queue, produced, result, cancelReq,
                   everBound>>
    /\ UNCHANGED notMain

\* Lines 120-124: a send that raised or came back with no value ends the
\* call; otherwise the pass step of [mover] is built and handed to a runner.
CapacitiveProbeThreshold(p) ==
    /\ pc[p] = "await_threshold"
    /\ args[p].proc = "capacitive_probe"
    /\ \E out \in ThresholdOutcomes, d \in DistanceChoices, s \in SpeedChoices :
        LET mover == args[p].mover
            movers == <<mover>>
            distance == (mover :> d)
            speed == (mover :> s)
        IN  /\ thr' = [thr EXCEPT ![p] = out]
            /\ IF out # "accepted" \/ BuildRaises(movers, distance, speed) # "none"
               THEN /\ pc' = [pc EXCEPT ![p] = "raised"]
                    /\ UNCHANGED runner
               ELSE /\ pc' = [pc EXCEPT ![p] = "enter_bind"]
                    /\ runner' = [runner EXCEPT ![p] =
                            NewRunner(<<BuildPassStep(movers, distance, speed)>>)]
    /\ UNCHANGED <<sends, args, outcome, bindings, queue, produced, result, cancelReq,
                   everBound>>
    /\ UNCHANGED notMain

\* Lines 125-130: enter bind_sync, then await runner.run inside it.
CapacitiveProbeBind(p) ==
    /\ pc[p] = "enter_bind"
    /\ args[p].proc = "capacitive_probe"
    /\ IF IsBound(CapacitiveIdentity(args[p]))
       THEN /\ pc' = [pc EXCEPT ![p] = "raised"]
            /\ UNCHANGED <<bindings, everBound>>
       ELSE /\ pc' = [pc EXCEPT ![p] = "await_run"]
            /\ bindings' = Arm(p, CapacitiveIdentity(args[p]), "sync")
            /\ everBound' = everBound \cup {p}
    /\ UNCHANGED <<sends, args, thr, runner, outcome, queue, produced, result, cancelReq>>
    /\ UNCHANGED notMain

\* ------------------------------------------------------- capacitive_pass
\* Lines 143-151: build the pass step of [mover], make the runner and
\* start runner.prep, outside any sensor scope.
CapacitivePass(p) ==
    /\ pc[p] = "idle"
    /\ Made(p)
    /\ \E tool \in ToolChoices, mover \in MoverChoices, sid \in SensorIds,
          d \in DistanceChoices, s \in SpeedChoices :
        LET movers == <<mover>>
            distance == (mover :> d)
            speed == (mover :> s)
        IN  /\ args' = [args EXCEPT ![p] =
                    [proc |-> "capacitive_pass", tool |-> tool, mover |-> mover,
                     sensor_id |-> sid]]
            /\ IF BuildRaises(movers, distance, speed) # "none"
               THEN /\ pc' = [pc EXCEPT ![p] = "raised"]
                    /\ UNCHANGED runner
               ELSE /\ pc' = [pc EXCEPT ![p] = "await_prep"]
                    /\ runner' = [runner EXCEPT ![p] =
                            NewRunner(<<BuildPassStep(movers, distance, speed)>>)]
    /\ UNCHANGED <<sends, thr, outcome, bindings, queue, produced, result, cancelReq,
                   everBound>>
    /\ UNCHANGED notMain

\* Faulty variant: the error of runner.prep is swallowed.
CapacitivePassAfterPrepSwallowed(state) ==
    IF state = "Cancelled" THEN "cancelled" ELSE "enter_bind"

\* Line 151 returning or raising: where capacitive_pass goes when
\* runner.prep ended in the given runner state.
CapacitivePassAfterPrep(state) ==
    IF state = "Prepared" THEN "enter_bind"
    ELSE IF state = "Cancelled" THEN "cancelled"
    ELSE "raised"

CapacitivePassPrepDone(p) ==
    /\ pc[p] = "await_prep"
    /\ runner[p].state \in {"Prepared", "Faulted", "Cancelled"}
    /\ pc' = [pc EXCEPT ![p] = CapacitivePassAfterPrep(runner[p].state)]
    /\ UNCHANGED <<sends, args, thr, runner, outcome, bindings, queue, produced, result,
                   cancelReq, everBound>>
    /\ UNCHANGED notMain

\* Lines 152-153: enter capture_output, then await runner.execute inside it.
CapacitivePassCapture(p) ==
    /\ pc[p] = "enter_bind"
    /\ args[p].proc = "capacitive_pass"
    /\ IF IsBound(CapacitiveIdentity(args[p]))
       THEN /\ pc' = [pc EXCEPT ![p] = "raised"]
            /\ UNCHANGED <<bindings, everBound>>
       ELSE /\ pc' = [pc EXCEPT ![p] = "await_execute"]
            /\ bindings' = Arm(p, CapacitiveIdentity(args[p]), "capture")
            /\ everBound' = everBound \cup {p}
    /\ UNCHANGED <<sends, args, thr, runner, outcome, queue, produced, result, cancelReq>>
    /\ UNCHANGED notMain

\* The capture binding's remote node streams a sample into the queue.
StreamSample(p) ==
    /\ \E b \in bindings : b.owner = p /\ b.mode = "capture"
    /\ Len(produced[p]) < MaxSamples
    /\ LET sample == Len(produced[p]) + 1
       IN  /\ queue' = [queue EXCEPT ![p] = Append(@, sample)]
           /\ produced' = [produced EXCEPT ![p] = Append(@, sample)]
    /\ UNCHANGED <<sends, pc, args, thr, runner, outcome, bindings, result, cancelReq,
                   everBound>>
    /\ UNCHANGED notMain

\* Faulty variant: one get_nowait instead of the loop.
DrainFirstOnly(q) == IF q = <<>> THEN <<>> ELSE <<Head(q)>>

\* _drain (lines 155-162): get_nowait until QueueEmpty, in queue order.
RECURSIVE Drain(_)
Drain(q) == IF q = <<>> THEN <<>> ELSE <<Head(q)>> \o Drain(Tail(q))

CapacitivePassDrain(p) ==
    /\ pc[p] = "drain"
    /\ result' = [result EXCEPT ![p] = Drain(queue[p])]
    /\ queue' = [queue EXCEPT ![p] = <<>>]
    /\ pc' = [pc EXCEPT ![p] = "returned"]
    /\ UNCHANGED <<sends, args, thr, runner, outcome, bindings, produced, cancelReq,
                   everBound>>
    /\ UNCHANGED notMain

\* ------------------------------------------------ the scripts' homing run
\* home_xy / home_gantry_xy: a runner of two groups, gantry_x then gantry_y,
\* each one limit_switch step of duration 100.
HomeStep(node) ==
    (node :> [distance |-> 0, velocity |-> -20, duration |-> <<100, 1>>,
              stop_condition |-> "limit_switch"])

\* Faulty variant: the two groups in the other order.
HomeXYGroupsSwapped == <<HomeStep("gantry_y"), HomeStep("gantry_x")>>
HomeXYGroups == <<HomeStep("gantry_x"), HomeStep("gantry_y")>>

\* await home_gantry.run(can_messenger=messenger)
HomeXY(p) ==
    /\ pc[p] = "idle"
    /\ Made(p)
    /\ args' = [args EXCEPT ![p] = [proc |-> "home_xy"]]
    /\ runner' = [runner EXCEPT ![p] = NewRunner(HomeXYGroups)]
    /\ pc' = [pc EXCEPT ![p] = "await_run"]
    /\ UNCHANGED <<sends, thr, outcome, bindings, queue, produced, result, cancelReq,
                   everBound>>
    /\ UNCHANGED notMain

\* ------------------------------------------- MoveGroupRunner: prepare
InRunner(p) == pc[p] \in {"await_prep", "await_run", "await_execute"}

SetRunner(p, r) ==
    /\ runner' = [runner EXCEPT ![p] = r]
    /\ UNCHANGED <<sends, pc, args, thr, outcome, bindings, queue, produced, result,
                   cancelReq, everBound>>
    /\ UNCHANGED notMain

\* prepare: the step parameters go to every node of every group.
RunnerPrepare(p) ==
    /\ pc[p] \in {"await_prep", "await_run"}
    /\ runner[p].state = "Built"
    /\ SetRunner(p, [runner[p] EXCEPT
            !.state = "Preparing",
            !.node = [n \in DOMAIN @ |-> "ready"]])

\* prepare: every node acknowledged.
RunnerPrepAcked(p) ==
    /\ InRunner(p)
    /\ runner[p].state = "Preparing"
    /\ SetRunner(p, [runner[p] EXCEPT !.state = "Prepared"])

\* prepare: a node never acknowledges: SetupError naming it, no motion.
RunnerSetupError(p) ==
    /\ InRunner(p)
    /\ runner[p].state = "Preparing"
    /\ \E n \in DOMAIN runner[p].node :
        SetRunner(p, [runner[p] EXCEPT
            !.state = "Faulted", !.err = [kind |-> "SetupError", node |-> n]])

\* ------------------------------------------- MoveGroupRunner: execute
CurrentNodes(r) == IF r.idx = 0 THEN {} ELSE GroupNodes(r.groups[r.idx])

\* execute: the start trigger of the next group is broadcast to the nodes
\* of that group once the group before it has fully reported.
RunnerStartGroup(p) ==
    /\ pc[p] \in {"await_run", "await_execute"}
    /\ runner[p].state \in {"Prepared", "Running"}
    /\ runner[p].idx < Len(runner[p].groups)
    /\ runner[p].idx > 0 => runner[p].done[runner[p].idx] = CurrentNodes(runner[p])
    /\ LET i == runner[p].idx + 1
           nodes == GroupNodes(runner[p].groups[i])
       IN  SetRunner(p, [runner[p] EXCEPT
               !.state = "Running",
               !.idx = i,
               !.started[i] = nodes,
               !.node = [n \in DOMAIN @ |-> IF n \in nodes THEN "moving" ELSE @[n]]])

Moving(r) == {n \in CurrentNodes(r) : r.node[n] = "moving"}

\* The nodes of the group in progress reach their shared commanded duration.
NodesReachDuration(p) ==
    /\ runner[p] # NoRunner
    /\ Moving(runner[p]) # {}
    /\ SetRunner(p, [runner[p] EXCEPT
            !.node = [n \in DOMAIN @ |->
                        IF n \in Moving(runner[p]) THEN "full" ELSE @[n]]])

SyncArmed == \E b \in bindings : b.mode \in {"sync", "output"}

CanTrip(step) ==
    \/ step.stop_condition = "limit_switch"
    \/ step.stop_condition = "sync_line" /\ SyncArmed

\* A moving node's stop condition trips before the duration elapses: it
\* stops as triggered and the sync line stops every peer of its group.
NodeTrips(p) ==
    /\ runner[p] # NoRunner
    /\ \E n \in Moving(runner[p]) :
        /\ CanTrip(runner[p].groups[runner[p].idx][n])
        /\ SetRunner(p, [runner[p] EXCEPT
                !.node = [m \in DOMAIN @ |->
                            IF m = n THEN "triggered"
                            ELSE IF m \in Moving(runner[p]) THEN "by_peer"
                            ELSE @[m]]])

Reported == {"full", "triggered", "by_peer"}

\* execute: the completion message of one node of the group in progress.
RunnerCompletion(p) ==
    /\ pc[p] \in {"await_run", "await_execute"}
    /\ runner[p].state = "Running"
    /\ \E n \in CurrentNodes(runner[p]) \ runner[p].done[runner[p].idx] :
        /\ runner[p].node[n] \in Reported
        /\ SetRunner(p, [runner[p] EXCEPT !.done[runner[p].idx] = @ \cup {n}])

\* execute: the last group fully reported; execute returns.
RunnerReturn(p) ==
    /\ pc[p] \in {"await_run", "await_execute"}
    /\ runner[p].state = "Running"
    /\ runner[p].idx = Len(runner[p].groups)
    /\ runner[p].done[runner[p].idx] = CurrentNodes(runner[p])
    /\ SetRunner(p, [runner[p] EXCEPT !.state = "Completed"])

\* execute: a node never reports completion: ExecutionTimeoutError.
RunnerExecutionTimeout(p) ==
    /\ pc[p] \in {"await_run", "await_execute"}
    /\ runner[p].state = "Running"
    /\ \E n \in CurrentNodes(runner[p]) \ runner[p].done[runner[p].idx] :
        SetRunner(p, [runner[p] EXCEPT
            !.state = "Faulted", !.err = [kind |-> "ExecutionTimeoutError", node |-> n]])

\* execute cancelled: a stop goes to every node of the group in progress,
\* then the cancellation is handed on.
RunnerCancelStop(p) ==
    /\ InRunner(p)
    /\ runner[p].state = "Cancelling"
    /\ SetRunner(p, [runner[p] EXCEPT
            !.state = "Cancelled",
            !.stopSent = CurrentNodes(runner[p]),
            !.node = [n \in DOMAIN @ |->
                        IF n \in Moving(runner[p]) THEN "stopped" ELSE @[n]]])

\* ------------------------------------------------ cancellation of a call
\* Faulty variant: the run is detached from the call, whose cancellation
\* goes straight to the caller.
CancelAwaitedRunDetached(p) ==
    /\ pc' = [pc EXCEPT ![p] =
            IF args[p].proc \in Probing /\ pc[p] # "await_prep"
            THEN "exit_bind" ELSE "cancelled"]
    /\ outcome' = [outcome EXCEPT ![p] = "cancel"]
    /\ UNCHANGED runner

\* A cancellation that arrives while the call awaits the runner is thrown
\* into the awaited prep / run / execute (lines 89, 130, 151, 153).
CancelAwaitedRun(p) ==
    /\ runner' = [runner EXCEPT ![p].state = "Cancelling"]
    /\ UNCHANGED <<pc, outcome>>

\* The task of a call is cancelled at one of its suspension points.
Cancel(p) ==
    /\ p \notin cancelReq
    /\ cancelReq' = cancelReq \cup {p}
    /\ \/ /\ pc[p] \in {"await_threshold", "enter_bind"}
          /\ pc' = [pc EXCEPT ![p] = "cancelled"]
          /\ UNCHANGED <<runner, outcome>>
       \/ /\ InRunner(p)
          /\ runner[p].state \in {"Built", "Preparing", "Prepared", "Running"}
          /\ CancelAwaitedRun(p)
    /\ UNCHANGED <<sends, args, thr, bindings, queue, produced, result, everBound>>
    /\ UNCHANGED notMain

\* ------------------------------------------------- leaving the await
RunOutcome(state) ==
    IF state = "Completed" THEN "ok"
    ELSE IF state = "Cancelled" THEN "cancel"
    ELSE "err"

EndOf(out) ==
    IF out = "ok" THEN "returned"
    ELSE IF out = "cancel" THEN "cancelled"
    ELSE "raised"

\* Faulty variant: the scope's exit is reached on normal return only.
AfterRunNoUnwind(proc, out) ==
    IF proc \in Probing /\ out = "ok" THEN "exit_bind" ELSE EndOf(out)

\* Where a call goes when its awaited run / execute ended: the "async with"
\* of the probing procedures (lines 85-89, 125-131, 152-153) leaves through
\* the scope's exit on every outcome; the scripts' run has no scope.
AfterRun(proc, out) ==
    IF proc \in Probing THEN "exit_bind" ELSE EndOf(out)

RunFinished(p) ==
    /\ pc[p] \in {"await_run", "await_execute"}
    /\ runner[p].state \in {"Completed", "Faulted", "Cancelled"}
    /\ outcome' = [outcome EXCEPT ![p] = RunOutcome(runner[p].state)]
    /\ pc' = [pc EXCEPT ![p] = AfterRun(args[p].proc, RunOutcome(runner[p].state))]
    /\ UNCHANGED <<sends, args, thr, runner, bindings, queue, produced, result,
                   cancelReq, everBound>>
    /\ UNCHANGED notMain

\* What follows the scope's exit: liquid_probe and capacitive_probe return
\* from inside the scope (lines 89, 131), capacitive_pass goes on to drain
\* (lines 155-162); an error or a cancellation propagates.
AfterScope(proc, out) ==
    IF proc = "capacitive_pass" /\ out = "ok" THEN "drain" ELSE EndOf(out)

\* The exit of bind_output / bind_sync / capture_output: disarm.
BindExit(p) ==
    /\ pc[p] = "exit_bind"
    /\ bindings' = Disarm(p)
    /\ pc' = [pc EXCEPT ![p] = AfterScope(args[p].proc, outcome[p])]
    /\ UNCHANGED <<sends, args, thr, runner, outcome, queue, produced, result,
                   cancelReq, everBound>>
    /\ UNCHANGED notMain

\* --------------------------------------------------- the specification
BuildIdle == bIn = [movers |-> <<>>] /\ bOut = [kind |-> "idle"]

\* No script is running: no messenger was built.
MsgIdle ==
    /\ msgState = "none"
    /\ waiters = [w \in WaiterIds |-> "none"]
    /\ listeners = {}
    /\ scriptPc = "none"
    /\ scriptExit = "none"
    /\ stopTook = [waiters |-> {}, listeners |-> {}]

\* No gripper is attached and nothing was asked of one.
NoGripper == [gripper_id |-> "none"]
NoCall == [op |-> "none"]
GripIdle == gripper = NoGripper /\ gOut = NoCall

\* No ProtocolReader call was made and the directory is empty.
ReadIdle ==
    /\ rdPc = "idle"
    /\ rdCall = [op |-> "none"]
    /\ rdDir = {}
    /\ rdOut = [raised |-> "none", cause |-> "none", main_file |-> "none",
                files |-> <<>>]
    /\ rdLocals = [i |-> 0, main_file_info |-> "None",
                   protocol_source_files |-> <<>>]

\* No LiquidSettingsRunner was built: there is no pipette to drive.
LiqIdle ==
    /\ lqPc = "none"
    /\ lqCfg = [aspirate |-> <<>>, dispense |-> <<>>]
    /\ lqPip = [current_volume |-> 0]
    /\ lqLog = <<>>
    /\ lqEntry = [taken |-> FALSE]

\* No message id is being looked up.
RegIdle ==
    /\ regIn = [a |-> "none", b |-> "none", wire |-> 0 - 1]
    /\ regOut = [a |-> 0 - 1, b |-> 0 - 1, member |-> "none"]

Init ==
    /\ MainInit
    /\ BuildIdle
    /\ MsgIdle
    /\ GripIdle
    /\ ReadIdle
    /\ LiqIdle
    /\ RegIdle

Next ==
    \E p \in Calls :
        \/ LiquidProbe(p)
        \/ LiquidProbeThreshold(p)
        \/ LiquidProbeBind(p)
        \/ CapacitiveProbe(p)
        \/ CapacitiveProbeThreshold(p)
        \/ CapacitiveProbeBind(p)
        \/ CapacitivePass(p)
        \/ CapacitivePassPrepDone(p)
        \/ CapacitivePassCapture(p)
        \/ StreamSample(p)
        \/ CapacitivePassDrain(p)
        \/ HomeXY(p)
        \/ RunnerPrepare(p)
        \/ RunnerPrepAcked(p)
        \/ RunnerSetupError(p)
        \/ RunnerStartGroup(p)
        \/ NodesReachDuration(p)
        \/ NodeTrips(p)
        \/ RunnerCompletion(p)
        \/ RunnerReturn(p)
        \/ RunnerExecutionTimeout(p)
        \/ RunnerCancelStop(p)
        \/ Cancel(p)
        \/ RunFinished(p)
        \/ BindExit(p)

Spec == Init /\ [][Next]_vars

\* ------------------------------------ _build_pass_step called on its own
BuildNodes == {"head_l", "head_r", "pipette_left", "gripper"}
Magnitudes == (0 - MaxMag)..MaxMag

\* movers lists of one node, and of two distinct nodes in either order.
MoverLists ==
    {<<n>> : n \in BuildNodes}
    \cup {<<pr[1], pr[2]>> : pr \in {x \in BuildNodes \X BuildNodes : x[1] # x[2]}}

BuildInputs ==
    UNION {[movers : {ml},
            distance : [SeqRange(ml) -> Magnitudes],
            speed : [SeqRange(ml) -> Magnitudes]] : ml \in MoverLists}

BuildInit ==
    /\ MainInit
    /\ MsgIdle
    /\ GripIdle
    /\ ReadIdle
    /\ LiqIdle
    /\ RegIdle
    /\ bIn \in BuildInputs
    /\ bOut = [kind |-> "pending"]

\* The call returns its step or raises.
BuildCall ==
    /\ bOut.kind = "pending"
    /\ bOut' =
        IF BuildRaises(bIn.movers, bIn.distance, bIn.speed) # "none"
        THEN [kind |-> "raised",
              error |-> BuildRaises(bIn.movers, bIn.distance, bIn.speed)]
        ELSE [kind |-> "step",
              step |-> BuildPassStep(bIn.movers, bIn.distance, bIn.speed)]
    /\ UNCHANGED <<bIn, notBuild>>

BuildNext == BuildCall

BuildSpec == BuildInit /\ [][BuildNext]_vars

\* ------------------------------------------------- instruments/ot3/gripper
RECONFIG_KEYS == {"quirks"}

GripperProbe == {"FRONT", "REAR"}
GripperJawState == {"UNHOMED", "HOMED_READY", "GRIPPING"}
\* The critical points a caller can name; MOUNT stands for those the
\* gripper has no branch for.
CriticalPoint == {"XY_CENTER", "NOZZLE", "TIP", "MOUNT", "GRIPPER_JAW_CENTER",
                  "GRIPPER_FRONT_CALIBRATION_PIN",
                  "GRIPPER_REAR_CALIBRATION_PIN"}
CalibrationPins == {"GRIPPER_FRONT_CALIBRATION_PIN",
                    "GRIPPER_REAR_CALIBRATION_PIN"}

\* opentrons.types.Point, in whole millimetres.
AddPoint(a, b) == <<a[1] + b[1], a[2] + b[2], a[3] + b[3]>>
SubPoint(a, b) == <<a[1] - b[1], a[2] - b[2], a[3] - b[3]>>
PointY(y) == <<0, y, 0>>

\* Gripper configs: two jaw geometries, with and without a quirk.
JawSizes == {[min |-> 60, max |-> 64], [min |-> 60, max |-> 67]}
Quirks == {{}, {"jawAlignment"}}
GripperConfigs ==
    [jaw_sizes_mm : JawSizes,
     quirks : Quirks,
     base_offset_from_mount : {<<1, 0, 0>>},
     jaw_center_offset_from_base : {<<0, 1, 2>>},
     pin_one_offset_from_base : {<<0, 3, 1>>},
     pin_two_offset_from_base : {<<0, -3, 1>>}]
CalOffsets == {<<0, 0, 0>>, <<1, 1, 0>>}
Serials == {"G1", "G2"}

\* Gripper.__init__ (lines 40-74).
Gripper(config, gripper_cal_offset, gripper_id) ==
    [config |-> config,
     jaw_center_offset |->
         AddPoint(config.jaw_center_offset_from_base, config.base_offset_from_mount),
     front_calibration_pin_offset |->
         AddPoint(config.pin_one_offset_from_base, config.base_offset_from_mount),
     rear_calibration_pin_offset |->
         AddPoint(config.pin_two_offset_from_base, config.base_offset_from_mount),
     calibration_offset |-> gripper_cal_offset,
     gripper_id |-> gripper_id,
     state |-> "UNHOMED",
     current_jaw_displacement |-> 0,
     attached_probe |-> "None"]

\* Twice _max_jaw_displacement() (line 105), which halves max - min.
TwiceMaxJawDisplacement(g) ==
    g.config.jaw_sizes_mm.max - g.config.jaw_sizes_mm.min

\* The two asserts of the current_jaw_displacement setter (lines 96-101).
JawDisplacementAccepted(g, mm) ==
    /\ mm >= 0
    /\ 2 * mm <= TwiceMaxJawDisplacement(g) + 4

\* Faulty variant: a displacement of zero passes the check.
CheckPinLocationZeroAllowed(g) ==
    IF g.attached_probe = "None" THEN "RuntimeError"
    ELSE IF g.state # "GRIPPING" THEN "RuntimeError"
    ELSE IF 2 * g.current_jaw_displacement > TwiceMaxJawDisplacement(g) - 2
         THEN "RuntimeError"
    ELSE "none"

\* check_calibration_pin_location_is_accurate (lines 149-161): the error
\* it raises, if any.
check_calibration_pin_location_is_accurate(g) ==
    IF g.attached_probe = "None" THEN "RuntimeError"
    ELSE IF g.state # "GRIPPING" THEN "RuntimeError"
    ELSE IF g.current_jaw_displacement = 0 THEN "RuntimeError"
    ELSE IF 2 * g.current_jaw_displacement > TwiceMaxJawDisplacement(g) - 2
         THEN "RuntimeError"
    ELSE "none"

\* cp_override in [CriticalPoint.NOZZLE, CriticalPoint.TIP] (line 168).
RefusedOverride(cp_override) == cp_override \in {"NOZZLE", "TIP"}

\* Faulty variant: the attached probe wins over the override.
ResolveCpProbeFirst(g, cp_override) ==
    IF g.attached_probe = "REAR" THEN "GRIPPER_REAR_CALIBRATION_PIN"
    ELSE IF g.attached_probe = "FRONT" THEN "GRIPPER_FRONT_CALIBRATION_PIN"
    ELSE IF cp_override # "None" THEN cp_override
    ELSE "GRIPPER_JAW_CENTER"

\* Lines 173-179: cp_override or the point the attached probe selects.
ResolveCp(g, cp_override) ==
    IF cp_override # "None" THEN cp_override
    ELSE IF g.attached_probe = "None" THEN "GRIPPER_JAW_CENTER"
    ELSE IF g.attached_probe = "REAR" THEN "GRIPPER_REAR_CALIBRATION_PIN"
    ELSE "GRIPPER_FRONT_CALIBRATION_PIN"

Raised(cp, error) == [cp |-> cp, raised |-> error, point |-> <<>>]
Returned(cp, point) == [cp |-> cp, raised |-> "none", point |-> point]

\* Faulty variant: a point with no branch of its own is taken for the jaw
\* center.
UnhandledCpAsJawCenter(g, cp) ==
    Returned(cp, AddPoint(g.jaw_center_offset, g.calibration_offset))

\* The final else (lines 197-198).
UnhandledCp(g, cp) == Raised(cp, "InvalidMoveError")

\* Gripper.critical_point (lines 163-198).
critical_point(g, cp_override) ==
    LET cp == ResolveCp(g, cp_override) IN
    IF RefusedOverride(cp_override) THEN Raised(cp_override, "InvalidMoveError")
    ELSE IF cp \in {"GRIPPER_JAW_CENTER", "XY_CENTER"}
    THEN Returned(cp, AddPoint(g.jaw_center_offset, g.calibration_offset))
    ELSE IF cp = "GRIPPER_FRONT_CALIBRATION_PIN"
    THEN IF check_calibration_pin_location_is_accurate(g) # "none"
         THEN Raised(cp, check_calibration_pin_location_is_accurate(g))
         ELSE Returned(cp,
                  AddPoint(AddPoint(g.front_calibration_pin_offset,
                                    g.calibration_offset),
                           PointY(g.current_jaw_displacement)))
    ELSE IF cp = "GRIPPER_REAR_CALIBRATION_PIN"
    THEN IF check_calibration_pin_location_is_accurate(g) # "none"
         THEN Raised(cp, check_calibration_pin_location_is_accurate(g))
         ELSE Returned(cp,
                  SubPoint(AddPoint(g.rear_calibration_pin_offset,
                                    g.calibration_offset),
                           PointY(g.current_jaw_displacement)))
    ELSE UnhandledCp(g, cp)

\* The keys on which asdict(new_config) and asdict(old config) differ
\* (lines 238-243).
ChangedKeys(new_config, old_config) ==
    {k \in DOMAIN new_config : new_config[k] # old_config[k]}

\* What a detection call gives back: the attached object itself, a newly
\* built Gripper, or None.
SameObject == [ret |-> "attached", made |-> NoGripper]
NewObject(g) == [ret |-> "new", made |-> g]
NoObject == [ret |-> "None", made |-> NoGripper]

\* Faulty variant: any changed key rebuilds the gripper.
ReloadGripperAnyChange(new_config, attached_instr, cal_offset) ==
    IF new_config = attached_instr.config
       /\ cal_offset = attached_instr.calibration_offset
    THEN SameObject
    ELSE IF ChangedKeys(new_config, attached_instr.config) # {}
    THEN NewObject(Gripper(new_config, cal_offset, attached_instr.gripper_id))
    ELSE SameObject

\* _reload_gripper (lines 222-247).
ReloadGripper(new_config, attached_instr, cal_offset) ==
    IF new_config = attached_instr.config
       /\ cal_offset = attached_instr.calibration_offset
    THEN SameObject
    ELSE IF ChangedKeys(new_config, attached_instr.config) \cap RECONFIG_KEYS # {}
    THEN NewObject(Gripper(new_config, cal_offset, attached_instr.gripper_id))
    ELSE SameObject

\* What was read of the freshly detected gripper: its config and id, each
\* of which can be missing.
NoConfig == [jaw_sizes_mm |-> "none"]
FreshlyDetected ==
    [config : GripperConfigs \cup {NoConfig}, id : Serials \cup {"None"}]

\* compare_gripper_config_and_check_skip (lines 250-282).
compare_gripper_config_and_check_skip(freshly_detected, attached, cal_offset) ==
    LET config == freshly_detected.config
        serial == IF freshly_detected.id = "None" THEN "" ELSE freshly_detected.id
    IN
    IF config = NoConfig /\ attached = NoGripper THEN SameObject
    ELSE IF config # NoConfig /\ attached # NoGripper
            /\ serial = attached.gripper_id
    THEN ReloadGripper(config, attached, cal_offset)
    ELSE IF config # NoConfig THEN NewObject(Gripper(config, cal_offset, serial))
    ELSE NoObject

\* A gripper is attached in its state after construction, or none is.
GripInit ==
    /\ MainInit
    /\ BuildIdle
    /\ MsgIdle
    /\ ReadIdle
    /\ LiqIdle
    /\ RegIdle
    /\ gripper \in {Gripper(c, <<0, 0, 0>>, "G1") : c \in GripperConfigs}
                       \cup {NoGripper}
    /\ gOut = NoCall

JawInputs == (0 - 1)..MaxJawInput

\* gripper.current_jaw_displacement = mm (lines 94-102).
SetCurrentJawDisplacement(mm) ==
    /\ gripper # NoGripper
    /\ gripper' = IF JawDisplacementAccepted(gripper, mm)
                  THEN [gripper EXCEPT !.current_jaw_displacement = mm]
                  ELSE gripper
    /\ gOut' = [op |-> "current_jaw_displacement", before |-> gripper,
                mm |-> mm,
                raised |-> IF JawDisplacementAccepted(gripper, mm)
                           THEN "none" ELSE "AssertionError"]
    /\ UNCHANGED notGrip

ConfigItems ==
    {<<"jaw_sizes_mm", j>> : j \in JawSizes} \cup {<<"quirks", q>> : q \in Quirks}

\* update_config_item (lines 119-121): replace() of one field.
update_config_item(elem_name, elem_val) ==
    /\ gripper # NoGripper
    /\ gripper' = [gripper EXCEPT !.config = [@ EXCEPT ![elem_name] = elem_val]]
    /\ gOut' = [op |-> "update_config_item", before |-> gripper,
                elem_name |-> elem_name]
    /\ UNCHANGED notGrip

\* gripper.state = s (lines 111-113).
SetState(s) ==
    /\ gripper # NoGripper
    /\ gripper' = [gripper EXCEPT !.state = s]
    /\ gOut' = [op |-> "state", before |-> gripper]
    /\ UNCHANGED notGrip

\* add_probe (lines 80-83).
add_probe(probe) ==
    /\ gripper # NoGripper
    /\ gripper' = IF gripper.attached_probe = "None"
                  THEN [gripper EXCEPT !.attached_probe = probe]
                  ELSE gripper
    /\ gOut' = [op |-> "add_probe", before |-> gripper,
                raised |-> IF gripper.attached_probe = "None"
                           THEN "none" ELSE "AssertionError"]
    /\ UNCHANGED notGrip

\* remove_probe (lines 85-87).
remove_probe ==
    /\ gripper # NoGripper
    /\ gripper' = [gripper EXCEPT !.attached_probe = "None"]
    /\ gOut' = [op |-> "remove_probe", before |-> gripper,
                raised |-> IF gripper.attached_probe # "None"
                           THEN "none" ELSE "AssertionError"]
    /\ UNCHANGED notGrip

\* gripper.critical_point(cp_override)
CriticalPointCall(cp_override) ==
    /\ gripper # NoGripper
    /\ gOut' = [op |-> "critical_point", before |-> gripper,
                cp_override |-> cp_override,
                out |-> critical_point(gripper, cp_override)]
    /\ UNCHANGED <<gripper, notGrip>>

\* compare_gripper_config_and_check_skip(freshly_detected, gripper, cal_offset)
CompareCall(freshly_detected, cal_offset) ==
    /\ gOut' = [op |-> "compare", before |-> gripper,
                fresh |-> freshly_detected, cal_offset |-> cal_offset,
                out |-> compare_gripper_config_and_check_skip(
                            freshly_detected, gripper, cal_offset)]
    /\ UNCHANGED <<gripper, notGrip>>

GripNext ==
    \/ \E mm \in JawInputs : SetCurrentJawDisplacement(mm)
    \/ \E item \in ConfigItems : update_config_item(item[1], item[2])
    \/ \E s \in GripperJawState : SetState(s)
    \/ \E probe \in GripperProbe : add_probe(probe)
    \/ remove_probe
    \/ \E o \in CriticalPoint \cup {"None"} : CriticalPointCall(o)
    \/ \E f \in FreshlyDetected, c \in CalOffsets : CompareCall(f, c)

GripSpec == GripInit /\ [][GripNext]_vars

\* ------------------------------ the scripts' run() and its messenger
\* Faulty variant: the messenger is stopped only after a body that ended
\* normally.
StopsOnNormalExitOnly(how) == how = "normal"

\* finally: await messenger.stop() runs however the try body ended.
StopsOnExit(how) == TRUE

BodyExits == {"normal", "error", "cancelled"}

MsgInit ==
    /\ MainInit
    /\ BuildIdle
    /\ GripIdle
    /\ ReadIdle
    /\ LiqIdle
    /\ RegIdle
    /\ msgState = "created"
    /\ waiters = [w \in WaiterIds |-> "none"]
    /\ listeners = {}
    /\ scriptPc = "created"
    /\ scriptExit = "none"
    /\ stopTook = [waiters |-> {}, listeners |-> {}]

\* messenger = CanMessenger(driver=driver); messenger.start()
MessengerStart ==
    /\ scriptPc = "created"
    /\ msgState' = "running"
    /\ scriptPc' = "body"
    /\ UNCHANGED <<waiters, listeners, scriptExit, stopTook, notMsg>>

\* send_and_wait registers a waiter for a correlation key that has none
\* outstanding.
SendAndWait(w) ==
    /\ scriptPc = "body"
    /\ msgState = "running"
    /\ waiters[w] # "pending"
    /\ waiters' = [waiters EXCEPT ![w] = "pending"]
    /\ UNCHANGED <<msgState, listeners, scriptPc, scriptExit, stopTook, notMsg>>

\* The correlated response arrives and completes the waiter.
WaiterResponse(w) ==
    /\ msgState = "running"
    /\ waiters[w] = "pending"
    /\ waiters' = [waiters EXCEPT ![w] = "responded"]
    /\ UNCHANGED <<msgState, listeners, scriptPc, scriptExit, stopTook, notMsg>>

\* The waiter's deadline passes first.
WaiterTimeout(w) ==
    /\ msgState = "running"
    /\ waiters[w] = "pending"
    /\ waiters' = [waiters EXCEPT ![w] = "TimeoutError"]
    /\ UNCHANGED <<msgState, listeners, scriptPc, scriptExit, stopTook, notMsg>>

Subscribe(l) ==
    /\ scriptPc = "body"
    /\ msgState = "running"
    /\ l \notin listeners
    /\ listeners' = listeners \cup {l}
    /\ UNCHANGED <<msgState, waiters, scriptPc, scriptExit, stopTook, notMsg>>

Unsubscribe(l) ==
    /\ scriptPc = "body"
    /\ l \in listeners
    /\ listeners' = listeners \ {l}
    /\ UNCHANGED <<msgState, waiters, scriptPc, scriptExit, stopTook, notMsg>>

\* The try body ends: it ran through, raised, or was cancelled (the
\* CancelledError is caught and passed over).
BodyEnds(how) ==
    /\ scriptPc = "body"
    /\ scriptExit' = how
    /\ scriptPc' = IF StopsOnExit(how) THEN "finally" ELSE "done"
    /\ UNCHANGED <<msgState, waiters, listeners, stopTook, notMsg>>

Pending == {w \in WaiterIds : waiters[w] = "pending"}

\* stop(): every outstanding waiter is completed with a cancellation error
\* and every subscription is dropped.
MessengerStop ==
    /\ scriptPc = "finally"
    /\ msgState = "running"
    /\ stopTook' = [waiters |-> Pending, listeners |-> listeners]
    /\ waiters' = [w \in WaiterIds |->
                      IF w \in Pending THEN "CancelledError" ELSE waiters[w]]
    /\ listeners' = {}
    /\ msgState' = "stopped"
    /\ scriptPc' = "done"
    /\ UNCHANGED <<scriptExit, notMsg>>

MsgNext ==
    \/ MessengerStart
    \/ \E w \in WaiterIds : SendAndWait(w)
    \/ \E w \in WaiterIds : WaiterResponse(w)
    \/ \E w \in WaiterIds : WaiterTimeout(w)
    \/ \E l \in ListenerIds : Subscribe(l)
    \/ \E l \in ListenerIds : Unsubscribe(l)
    \/ \E how \in BodyExits : BodyEnds(how)
    \/ MessengerStop

MsgSpec == MsgInit /\ [][MsgNext]_vars

\* ------------------------------------------ protocol_reader.ProtocolReader
\* The files a call can be given, by name: two JSON protocols, a labware
\* definition, a Python protocol under two spellings, and a data file.
FileNames == {"proto.json", "proto2.json", "labware.json", "proto.py",
              "PROTO.PY", "data.csv"}

\* The end of a file's name as written.
NameSuffix(f) ==
    CASE f \in {"proto.json", "proto2.json", "labware.json"} -> ".json"
      [] f = "proto.py" -> ".py"
      [] f = "PROTO.PY" -> ".PY"
      [] OTHER -> ".csv"

\* str.lower() on the end of a name.
Lower(suffix) == IF suffix = ".PY" THEN ".py" ELSE suffix

\* file_path.name.lower().endswith(ext)
LowerEndsWith(f, ext) == Lower(NameSuffix(f)) = ext

\* json_contents["$otSharedSchema"].startswith("#/protocol/schemas"), False
\* on KeyError (lines 208-213).
LooksLikeProtocol(f) == f \in {"proto.json", "proto2.json"}

\* Sequences of distinct files, at most MaxFiles long.
FileLists ==
    {fs \in UNION {[1..n -> FileNames] : n \in 1..MaxFiles} :
        \A a, b \in DOMAIN fs : a # b => fs[a] # fs[b]}

HelperErrors == {"FileReadError", "RoleAnalysisError", "ConfigAnalysisError"}

\* Faulty variant: only the file reader's error is caught.
CaughtFileReadOnly(error) == error = "FileReadError"

\* except (FileReadError, RoleAnalysisError, ConfigAnalysisError)
\* (lines 101, 148).
Caught(error) == error \in HelperErrors

\* The role analysis: the main file is the one protocol among the files, a
\* Python file or a JSON protocol; the labware files are the other JSON
\* files in the order given.
IsMainFile(f) == LowerEndsWith(f, ".py") \/ LooksLikeProtocol(f)
IsLabwareFile(f) == LowerEndsWith(f, ".json") /\ ~LooksLikeProtocol(f)
MainFilesOf(files) == SelectSeq(files, IsMainFile)
LabwareFilesOf(files) == SelectSeq(files, IsLabwareFile)

\* all_files = [role_analysis.main_file, *role_analysis.labware_files]
\* (lines 105-108, 152-155).
AllFiles(files) == <<MainFilesOf(files)[1]>> \o LabwareFilesOf(files)

RoleOf(f) == IF IsMainFile(f) THEN "MAIN" ELSE "LABWARE"

\* The ProtocolSource read_and_save and read_saved return: main_file and
\* the (path, role) entries of all_files (lines 111-124, 162-176).
ReadSavedSource(files) ==
    [raised |-> "none",
     cause |-> "none",
     main_file |-> MainFilesOf(files)[1],
     files |-> [k \in DOMAIN AllFiles(files) |->
                   <<AllFiles(files)[k], RoleOf(AllFiles(files)[k])>>]]

\* A call that raised: the error it raised and the error behind it.
RaisedSource(error, cause) ==
    [raised |-> error, cause |-> cause, main_file |-> "none", files |-> <<>>]

NoSource == [raised |-> "none", cause |-> "none", main_file |-> "none",
             files |-> <<>>]

ReaderOps == {"read_and_save", "read_saved", "read_saved_prevalidated"}

ReaderCalls == [op : ReaderOps, files : FileLists]

NoLocals == [i |-> 0, main_file_info |-> "None", protocol_source_files |-> <<>>]

ReadInit ==
    /\ MainInit
    /\ BuildIdle
    /\ MsgIdle
    /\ GripIdle
    /\ ReadIdle
    /\ LiqIdle
    /\ RegIdle

\* A method of the reader is called; the directory is as earlier calls
\* left it.
ReaderCall(call) ==
    /\ rdPc \in {"idle", "returned", "raised"}
    /\ rdPc' = IF call.op = "read_saved_prevalidated" THEN "prevalidated"
               ELSE "read"
    /\ rdCall' = [op |-> call.op, files |-> call.files, dir_before |-> rdDir]
    /\ rdLocals' = NoLocals
    /\ rdOut' = NoSource
    /\ UNCHANGED <<rdDir, notRead>>

\* A helper raised inside the try block: raise ... from e for the errors
\* caught, the error itself otherwise.
HelperRaised(error) ==
    /\ rdPc' = "raised"
    /\ rdOut' = RaisedSource(IF Caught(error) THEN "ProtocolFilesInvalidError"
                                              ELSE error,
                              error)
    /\ UNCHANGED <<rdCall, rdDir, rdLocals, notRead>>

HelperPassed(next) ==
    /\ rdPc' = next
    /\ UNCHANGED <<rdCall, rdDir, rdOut, rdLocals, notRead>>

\* buffered_files = await self._file_reader_writer.read(files): the
\* reader gives the files or raises.
ReadFiles ==
    /\ rdPc = "read"
    /\ \/ HelperRaised("FileReadError")
       \/ HelperPassed("role")

\* role_analysis = self._role_analyzer.analyze(buffered_files): the
\* analysis raises, and it cannot pass without exactly one main file.
AnalyzeRoles ==
    /\ rdPc = "role"
    /\ \/ HelperRaised("RoleAnalysisError")
       \/ /\ Len(MainFilesOf(rdCall.files)) = 1
          /\ HelperPassed("config")

\* config_analysis = self._config_analyzer.analyze(role_analysis.main_file)
AnalyzeConfig ==
    /\ rdPc = "config"
    /\ \/ HelperRaised("ConfigAnalysisError")
       \/ HelperPassed(IF rdCall.op = "read_and_save" THEN "write" ELSE "return")

\* await self._file_reader_writer.write(directory=directory, files=all_files)
WriteFiles ==
    /\ rdPc = "write"
    /\ rdDir' = rdDir \cup SeqRange(AllFiles(rdCall.files))
    /\ rdPc' = "return"
    /\ UNCHANGED <<rdCall, rdOut, rdLocals, notRead>>

\* return ProtocolSource(...)
ReaderReturn ==
    /\ rdPc = "return"
    /\ rdOut' = ReadSavedSource(rdCall.files)
    /\ rdPc' = "returned"
    /\ UNCHANGED <<rdCall, rdDir, rdLocals, notRead>>

\* any(file_path.name.lower().endswith(".py") for file_path in files)
AnyPython(files) == \E k \in DOMAIN files : LowerEndsWith(files[k], ".py")

\* Faulty variant: a Python protocol is scanned like the JSON files.
PrevalidatedNextNeverDelegates(files) == "scan"

\* Line 193: with a Python file the call goes to read_saved, else to the
\* loop over the files.
PrevalidatedNext(files) == IF AnyPython(files) THEN "read" ELSE "scan"

\* read_saved_prevalidated up to the loop (lines 190-195).
PrevalidatedStart ==
    /\ rdPc = "prevalidated"
    /\ rdPc' = PrevalidatedNext(rdCall.files)
    /\ rdLocals' = [NoLocals EXCEPT !.i = 1]
    /\ UNCHANGED <<rdCall, rdDir, rdOut, notRead>>

AssertionFailed ==
    /\ rdPc' = "raised"
    /\ rdOut' = RaisedSource("AssertionError", "AssertionError")
    /\ UNCHANGED <<rdCall, rdDir, rdLocals, notRead>>

\* The entry the loop appends for a file (lines 228-237).
ScannedEntry(f) == <<f, IF LooksLikeProtocol(f) THEN "MAIN" ELSE "LABWARE">>

\* One turn of the loop (lines 197-237).
PrevalidatedFile ==
    /\ rdPc = "scan"
    /\ rdLocals.i <= Len(rdCall.files)
    /\ LET f == rdCall.files[rdLocals.i] IN
       IF ~LowerEndsWith(f, ".json") THEN AssertionFailed
       ELSE IF LooksLikeProtocol(f) /\ rdLocals.main_file_info # "None"
       THEN AssertionFailed
       ELSE /\ rdLocals' =
                [i |-> rdLocals.i + 1,
                 main_file_info |-> IF LooksLikeProtocol(f) THEN f
                                    ELSE rdLocals.main_file_info,
                 protocol_source_files |->
                     Append(rdLocals.protocol_source_files, ScannedEntry(f))]
            /\ UNCHANGED <<rdPc, rdCall, rdDir, rdOut, notRead>>

\* After the loop (lines 239-251).
PrevalidatedReturn ==
    /\ rdPc = "scan"
    /\ rdLocals.i > Len(rdCall.files)
    /\ IF rdLocals.main_file_info = "None" THEN AssertionFailed
       ELSE /\ rdPc' = "returned"
            /\ rdOut' = [raised |-> "none",
                         cause |-> "none",
                         main_file |-> rdLocals.main_file_info,
                         files |-> rdLocals.protocol_source_files]
            /\ UNCHANGED <<rdCall, rdDir, rdLocals, notRead>>

ReadNext ==
    \/ \E call \in ReaderCalls : ReaderCall(call)
    \/ ReadFiles
    \/ AnalyzeRoles
    \/ AnalyzeConfig
    \/ WriteFiles
    \/ ReaderReturn
    \/ PrevalidatedStart
    \/ PrevalidatedFile
    \/ PrevalidatedReturn

ReadSpec == ReadInit /\ [][ReadNext]_vars

\* --------------------------- gravimetric/pipette: LiquidSettingsRunner
\* An Optional[float] is the empty sequence for None and <<v>> for v.
None == <<>>

IsNone(x) == x = None

Some(v) == <<v>>

\* Faulty variant: tests "is not None" where the code tests truthiness.
TruthyNotNone(x) == ~IsNone(x)

\* Python's truth value of an Optional[float], as "if self._cfg.aspirate:"
\* takes it: None and 0.0 are both false.
Truthy(x) == ~IsNone(x) /\ x[1] # 0

\* A number as Python holds it: its type and its value.
PyInt(n) == [type |-> "int", num |-> n]

PyFloat(n) == [type |-> "float", num |-> n]

\* float(x) (line 150).
Float(x) == [type |-> "float", num |-> x.num]

\* Python's == on numbers compares the values, whatever the types.
PyEq(a, b) == a.num = b.num

Volumes == 0..MaxVolume

OptionalVolumes == {None} \cup {Some(v) : v \in Volumes}

\* The part of a LiquidSettingsRunnerConfig run() reads: the two volumes
\* and, of the liquid class settings, the wet air gap, the blow-out volume
\* and the delays.
RunnerConfigs ==
    [aspirate : OptionalVolumes,
     dispense : OptionalVolumes,
     wet_air_gap_volume : {0, 1},
     wet_air_gap_flow_rate : {PyFloat(6), PyFloat(9)},
     blow_out_volume : {0, 1},
     aspirate_delay : {0, 1},
     dispense_delay : {0, 1}]

\* The pipettes a runner may be given: what they hold and their flow rates.
Pipettes ==
    [current_volume : Volumes,
     flow_rate : [aspirate : {PyFloat(3)},
                  dispense : {PyInt(4), PyFloat(6)},
                  blow_out : {PyFloat(5)}]]

LiqInit ==
    /\ MainInit
    /\ BuildIdle
    /\ MsgIdle
    /\ GripIdle
    /\ ReadIdle
    /\ RegIdle
    /\ lqPc = "config"
    /\ lqCfg \in RunnerConfigs
    /\ lqPip \in Pipettes
    /\ lqLog = <<>>
    /\ lqEntry = [taken |-> FALSE]

\* The two assertions of __init__ (lines 92-97).
ConstructorAccepts(cfg) ==
    /\ ~IsNone(cfg.aspirate) \/ ~IsNone(cfg.dispense)
    /\ IsNone(cfg.aspirate) \/ IsNone(cfg.dispense)

\* LiquidSettingsRunner(delay_method, cfg).
Construct ==
    /\ lqPc = "config"
    /\ lqPc' = IF ConstructorAccepts(lqCfg) THEN "constructed"
               ELSE "AssertionError"
    /\ UNCHANGED <<lqCfg, lqPip, lqLog, lqEntry, notLiq>>

\* One call on the pipette or on the delay method, as the log keeps it.
Issued(op, volume) == [op |-> op, volume |-> volume]

\* dispense() without a volume and blow_out() empty the pipette.
Emptied(pip) == [pip EXCEPT !.current_volume = 0]

Aspirated(pip, v) == [pip EXCEPT !.current_volume = @ + v]

Dispensed(pip, v) ==
    [pip EXCEPT !.current_volume = IF v > @ THEN 0 ELSE @ - v]

\* A call on the pipette raises: run() has no handler, the error leaves it.
PipetteRaises(op, volume) ==
    /\ lqPc' = "raised"
    /\ lqLog' = Append(lqLog, Issued(op, volume))

\* _run_approach (lines 123-124).
RunApproach ==
    /\ lqPc = "constructed"
    /\ lqPc' = "approached"
    /\ lqLog' = Append(lqLog, Issued("move_to", 0))
    /\ UNCHANGED <<lqCfg, lqPip, lqEntry, notLiq>>

\* _run_gather_air_gaps (lines 126-128).
RunGatherAirGaps ==
    /\ lqPc = "approached"
    /\ IF Truthy(lqCfg.aspirate) /\ lqCfg.wet_air_gap_volume # 0
       THEN \/ /\ PipetteRaises("aspirate", lqCfg.wet_air_gap_volume)
               /\ UNCHANGED lqPip
            \/ /\ lqPc' = "gathered"
               /\ lqLog' = Append(lqLog,
                                  Issued("aspirate", lqCfg.wet_air_gap_volume))
               /\ lqPip' = Aspirated(lqPip, lqCfg.wet_air_gap_volume)
       ELSE /\ lqPc' = "gathered"
            /\ UNCHANGED <<lqLog, lqPip>>
    /\ UNCHANGED <<lqCfg, lqEntry, notLiq>>

\* _run_submerge (lines 130-139): two moves.
RunSubmerge ==
    /\ lqPc = "gathered"
    /\ lqPc' = "submerged"
    /\ lqLog' = lqLog \o <<Issued("move_to", 0), Issued("move_to", 0)>>
    /\ UNCHANGED <<lqCfg, lqPip, lqEntry, notLiq>>

\* The branch of run() on line 112.
TakesAspirate(cfg) == Truthy(cfg.aspirate)

\* _run_aspirate (lines 141-143), taken on line 113.
RunAspirate ==
    /\ lqPc = "submerged"
    /\ TakesAspirate(lqCfg)
    /\ IF Truthy(lqCfg.aspirate)
       THEN \/ /\ PipetteRaises("aspirate", lqCfg.aspirate[1])
               /\ UNCHANGED lqPip
            \/ /\ lqPc' = "pipetted"
               /\ lqLog' = Append(lqLog, Issued("aspirate", lqCfg.aspirate[1]))
               /\ lqPip' = Aspirated(lqPip, lqCfg.aspirate[1])
       ELSE /\ lqPc' = "pipetted"
            /\ UNCHANGED <<lqLog, lqPip>>
    /\ UNCHANGED <<lqCfg, lqEntry, notLiq>>

\* The pipette once the dispense flow rate is set (lines 151-153, 156).
WithDispenseRate(pip, rate) == [pip EXCEPT !.flow_rate.dispense = rate]

\* _run_dispense (lines 145-156), taken on line 115.  Between the change of
\* the dispense flow rate and its restoration stands the residual
\* dispense(), with no handler around it.
RunDispense ==
    /\ lqPc = "submerged"
    /\ ~TakesAspirate(lqCfg)
    /\ lqEntry' = [taken |-> TRUE, flow_rate |-> lqPip.flow_rate]
    /\ IF Truthy(lqCfg.dispense)
       THEN LET v == lqCfg.dispense[1]
                first == Dispensed(lqPip, v)
                _disp_flow_rate == Float(lqPip.flow_rate.dispense)
                slowed == WithDispenseRate(first, lqCfg.wet_air_gap_flow_rate)
            IN  \/ /\ PipetteRaises("dispense", v)
                   /\ UNCHANGED lqPip
                \/ /\ first.current_volume > 0
                   /\ lqPc' = "raised"
                   /\ lqLog' = lqLog \o <<Issued("dispense", v),
                                          Issued("dispense_all", 0)>>
                   /\ lqPip' = slowed
                \/ /\ first.current_volume > 0
                   /\ lqPc' = "pipetted"
                   /\ lqLog' = lqLog \o <<Issued("dispense", v),
                                          Issued("dispense_all", 0)>>
                   /\ lqPip' = WithDispenseRate(Emptied(slowed),
                                                _disp_flow_rate)
                \/ /\ first.current_volume <= 0
                   /\ lqPc' = "pipetted"
                   /\ lqLog' = Append(lqLog, Issued("dispense", v))
                   /\ lqPip' = first
       ELSE /\ lqPc' = "pipetted"
            /\ UNCHANGED <<lqLog, lqPip>>
    /\ UNCHANGED <<lqCfg, notLiq>>

\* The delay _run_delay hands to the delay method (lines 159-164).
DelayTime(cfg) ==
    IF Truthy(cfg.aspirate) /\ cfg.aspirate_delay # 0 THEN cfg.aspirate_delay
    ELSE IF Truthy(cfg.dispense) /\ cfg.dispense_delay # 0
         THEN cfg.dispense_delay
         ELSE 0

\* _run_delay (lines 158-165).
RunDelay ==
    /\ lqPc = "pipetted"
    /\ lqPc' = "delayed"
    /\ lqLog' = Append(lqLog, Issued("delay", DelayTime(lqCfg)))
    /\ UNCHANGED <<lqCfg, lqPip, lqEntry, notLiq>>

\* _run_retract (lines 167-172).
RunRetract ==
    /\ lqPc = "delayed"
    /\ lqPc' = "retracted"
    /\ lqLog' = Append(lqLog, Issued("move_to", 0))
    /\ UNCHANGED <<lqCfg, lqPip, lqEntry, notLiq>>

\* _run_blow_out (lines 174-176).
RunBlowOut ==
    /\ lqPc = "retracted"
    /\ IF Truthy(lqCfg.dispense) /\ lqCfg.blow_out_volume # 0
       THEN \/ /\ PipetteRaises("blow_out", 0)
               /\ UNCHANGED lqPip
            \/ /\ lqPc' = "blown_out"
               /\ lqLog' = Append(lqLog, Issued("blow_out", 0))
               /\ lqPip' = Emptied(lqPip)
       ELSE /\ lqPc' = "blown_out"
            /\ UNCHANGED <<lqLog, lqPip>>
    /\ UNCHANGED <<lqCfg, lqEntry, notLiq>>

\* _run_finish (lines 178-179); run() returns.
RunFinish ==
    /\ lqPc = "blown_out"
    /\ lqPc' = "finished"
    /\ lqLog' = Append(lqLog, Issued("move_to", 0))
    /\ UNCHANGED <<lqCfg, lqPip, lqEntry, notLiq>>

LiqNext ==
    \/ Construct
    \/ RunApproach
    \/ RunGatherAirGaps
    \/ RunSubmerge
    \/ RunAspirate
    \/ RunDispense
    \/ RunDelay
    \/ RunRetract
    \/ RunBlowOut
    \/ RunFinish

LiqSpec == LiqInit /\ [][LiqNext]_vars

\* ------------------------------ firmware_bindings: BinaryMessageId
\* Faulty variant: a kind inserted in the middle renumbers the later ones.
BinaryMessageIdShifted ==
    [echo |-> 0, ack |-> 1, ack_failed |-> 2, device_info_request |-> 4,
     device_info_response |-> 5, enter_bootloader_request |-> 6,
     enter_bootloader_response |-> 7]

\* The members of the enumeration and their values (lines 13-19).
BinaryMessageId ==
    [echo |-> 0, ack |-> 1, ack_failed |-> 2, device_info_request |-> 3,
     device_info_response |-> 4, enter_bootloader_request |-> 5,
     enter_bootloader_response |-> 6]

MessageKinds == DOMAIN BinaryMessageId

\* BinaryMessageId(value): the member with that value, or ValueError.
MemberOfValue(value) ==
    IF \E k \in MessageKinds : BinaryMessageId[k] = value
    THEN CHOOSE k \in MessageKinds : BinaryMessageId[k] = value
    ELSE "ValueError"

WireValues == 0..MaxWireValue

RegInit ==
    /\ MainInit
    /\ BuildIdle
    /\ MsgIdle
    /\ GripIdle
    /\ ReadIdle
    /\ LiqIdle
    /\ RegIdle

\* The ids of two kinds are taken, BinaryMessageId.a.value and
\* BinaryMessageId.b.value, as a sender does to fill in a header.
LookupMembers(a, b) ==
    /\ regIn' = [regIn EXCEPT !.a = a, !.b = b]
    /\ regOut' = [regOut EXCEPT !.a = BinaryMessageId[a],
                                !.b = BinaryMessageId[b]]
    /\ UNCHANGED notReg

\* A message id read off the wire is turned into its kind.
LookupValue(wire) ==
    /\ regIn' = [regIn EXCEPT !.wire = wire]
    /\ regOut' = [regOut EXCEPT !.member = MemberOfValue(wire)]
    /\ UNCHANGED notReg

RegNext ==
    \/ \E a, b \in MessageKinds : LookupMembers(a, b)
    \/ \E wire \in WireValues : LookupValue(wire)

RegSpec == RegInit /\ [][RegNext]_vars

\* ====================================================== properties
CallIdentity(p) ==
    <<IF args[p].proc = "liquid_probe" THEN "pressure" ELSE "capacitive",
      args[p].sensor_id, args[p].tool>>

HasRunner(p) == runner[p] # NoRunner
Executing(p) == HasRunner(p) /\ runner[p].state = "Running"
ProbingCall(p) == args[p].proc \in Probing

\* C1: in liquid_probe, capacitive_probe and capacitive_pass a start
\* trigger is only ever sent by a call that entered its sensor binding, the
\* runner executes only while the call holds the binding, the binding is
\* held only between the scope's entry and its exit, and a call that has
\* ended (returned, raised or cancelled) holds no binding.
C1_BindingBracketsMove ==
    \A p \in Calls :
        ProbingCall(p) =>
            /\ (HasRunner(p) /\ runner[p].idx > 0) => p \in everBound
            /\ Executing(p) => Holds(p)
            /\ Holds(p) => pc[p] \in {"await_run", "await_execute", "exit_bind"}
            /\ pc[p] \in Terminal => ~Holds(p)

\* A run cancelled in flight inside the binding, whose call ended disarmed.
C1_Witness ==
    \E p \in Calls :
        /\ ProbingCall(p)
        /\ pc[p] = "cancelled"
        /\ p \in everBound
        /\ HasRunner(p) /\ runner[p].idx > 0
        /\ \E n \in DOMAIN runner[p].node : runner[p].node[n] = "stopped"

\* C2: a group's start trigger goes to exactly the nodes of that group and
\* is sent only after every node of the group before it reported
\* completion; in the homing run gantry_y has not started unless gantry_x
\* reported completion.
C2_GroupBarrier ==
    \A p \in Calls :
        HasRunner(p) =>
            /\ \A i \in 1..Len(runner[p].groups) :
                /\ runner[p].started[i] \in {{}, GroupNodes(runner[p].groups[i])}
                /\ (i > 1 /\ runner[p].started[i] # {}) =>
                        runner[p].done[i - 1] = GroupNodes(runner[p].groups[i - 1])
            /\ (args[p].proc = "home_xy"
                    /\ runner[p].node["gantry_y"] \notin {"idle", "ready"}) =>
                   \E i \in 1..Len(runner[p].groups) : "gantry_x" \in runner[p].done[i]

\* The homing run has started gantry_y.
C2_Witness ==
    \E p \in Calls :
        /\ args[p].proc = "home_xy"
        /\ HasRunner(p)
        /\ runner[p].node["gantry_y"] = "moving"

\* C3: once a node of the group in progress has tripped, no node of that
\* group is moving or ran to its full duration, the tripped node is the
\* only one flagged triggered and every other node is flagged by_peer;
\* every step of a probing call's pass group has the sync_line stop
\* condition.
C3_FirstTripWins ==
    \A p \in Calls :
        HasRunner(p) =>
            /\ \A n \in CurrentNodes(runner[p]) :
                runner[p].node[n] = "triggered" =>
                    \A m \in CurrentNodes(runner[p]) \ {n} :
                        runner[p].node[m] = "by_peer"
            /\ ProbingCall(p) =>
                \A i \in 1..Len(runner[p].groups) :
                    \A n \in GroupNodes(runner[p].groups[i]) :
                        runner[p].groups[i][n].stop_condition = "sync_line"

\* A two-node pass group whose completion reports are in: one node
\* triggered, its peer stopped by it.
C3_Witness ==
    \E p \in Calls :
        /\ HasRunner(p)
        /\ runner[p].idx = 1
        /\ Cardinality(CurrentNodes(runner[p])) = 2
        /\ runner[p].done[1] = CurrentNodes(runner[p])
        /\ \E n \in CurrentNodes(runner[p]) : runner[p].node[n] = "triggered"
        /\ \E n \in CurrentNodes(runner[p]) : runner[p].node[n] = "by_peer"

\* C4: when the cancellation of a run has been handed on to the caller,
\* every node of the group that was in progress has been sent a stop and
\* none of them is still moving.
C4_CancelStopsGroup ==
    \A p \in Calls :
        (HasRunner(p) /\ (outcome[p] = "cancel" \/ pc[p] = "cancelled")) =>
            /\ CurrentNodes(runner[p]) \subseteq runner[p].stopSent
            /\ \A n \in CurrentNodes(runner[p]) : runner[p].node[n] # "moving"

\* A probing call cancelled mid-group, the cancellation handed on, a node
\* stopped by the stop instruction.
C4_Witness ==
    \E p \in Calls :
        /\ ProbingCall(p)
        /\ outcome[p] = "cancel"
        /\ HasRunner(p) /\ runner[p].idx = 1
        /\ runner[p].stopSent = CurrentNodes(runner[p])
        /\ \E n \in CurrentNodes(runner[p]) : runner[p].node[n] = "stopped"

SameIdentity(p, q) == CallIdentity(p) = CallIdentity(q)

\* C5: two calls never hold a binding of the same sensor identity (type,
\* sensor id, tool node) at once, and a call that reaches the entry of its
\* binding while another call holds that identity fails at that step with
\* the bindings left as they were.
C5_ExclusiveBinding ==
    [][/\ \A p \in Calls : \A q \in Calls \ {p} :
            (Holds(p)' /\ Holds(q)') => ~SameIdentity(p, q)'
       /\ \A p \in Calls :
            (/\ pc[p] = "enter_bind"
             /\ pc'[p] \notin {"enter_bind", "cancelled"}
             /\ \E q \in Calls \ {p} : Holds(q) /\ SameIdentity(p, q))
            => (pc'[p] = "raised" /\ bindings' = bindings)]_vars

\* The later of two overlapping capacitive calls on the same tool and
\* sensor failed at its binding while the earlier still holds it.
C5_Witness ==
    \E p \in Calls : \E q \in Calls \ {p} :
        /\ Holds(q)
        /\ args[q].proc \in {"capacitive_probe", "capacitive_pass"}
        /\ args[p].proc \in {"capacitive_probe", "capacitive_pass"}
        /\ SameIdentity(p, q)
        /\ pc[p] = "raised"
        /\ HasRunner(p)
        /\ runner[p].state \in {"Built", "Prepared"}
        /\ p \notin everBound

\* C6: a runner whose prepare failed with SetupError never sent a start
\* trigger and none of its nodes moved; in capacitive_pass the call then
\* never entered the capture scope, streamed no sample, and is raising.
C6_SetupFailureNoMotion ==
    \A p \in Calls :
        (HasRunner(p) /\ runner[p].err.kind = "SetupError") =>
            /\ runner[p].idx = 0
            /\ \A i \in 1..Len(runner[p].groups) : runner[p].started[i] = {}
            /\ \A n \in DOMAIN runner[p].node : runner[p].node[n] = "ready"
            /\ args[p].proc = "capacitive_pass" =>
                /\ pc[p] \in {"await_prep", "raised"}
                /\ p \notin everBound
                /\ ~Holds(p)
                /\ produced[p] = <<>>

\* capacitive_pass raised the SetupError of its prep.
C6_Witness ==
    \E p \in Calls :
        /\ args[p].proc = "capacitive_pass"
        /\ HasRunner(p) /\ runner[p].err.kind = "SetupError"
        /\ pc[p] = "raised"

\* C7: in liquid_probe and capacitive_probe a call whose threshold the tool
\* node did not accept never enters its binding, never sends a move-group
\* message and never returns normally.
C7_RejectedThresholdFails ==
    \A p \in Calls :
        (args[p].proc \in {"liquid_probe", "capacitive_probe"}
            /\ thr[p] \in {"ThresholdRejectedError", "None"}) =>
            /\ p \notin everBound
            /\ HasRunner(p) => runner[p].state = "Built"
            /\ pc[p] # "returned"

\* C8: in liquid_probe and capacitive_probe a call that entered its
\* binding or sent a move-group message made exactly one threshold send,
\* which had ended; no call sends twice; while the call awaits the run
\* inside the scope its sensor identity is armed for it.
C8_ThresholdOnceBeforeBinding ==
    \A p \in Calls :
        args[p].proc \in {"liquid_probe", "capacitive_probe"} =>
            /\ sends[p] <= 1
            /\ (p \in everBound \/ (HasRunner(p) /\ runner[p].state # "Built")) =>
                    (sends[p] = 1 /\ thr[p] \notin {"unsent", "pending"})
            /\ pc[p] = "await_run" =>
                    \E b \in bindings : b.owner = p /\ b.id = CallIdentity(p)

\* A probe that sent its threshold, bound, ran to completion and returned.
C8_Witness ==
    \E p \in Calls :
        /\ args[p].proc \in {"liquid_probe", "capacitive_probe"}
        /\ pc[p] = "returned"
        /\ sends[p] = 1
        /\ p \in everBound
        /\ runner[p].state = "Completed"

\* C9: capacitive_pass drains only after the run completed and the capture
\* scope exited; what it returns is every sample streamed into the queue,
\* in the order produced, and the queue is then empty.
C9_DrainAfterScope ==
    \A p \in Calls :
        args[p].proc = "capacitive_pass" =>
            /\ pc[p] \in {"drain", "returned"} =>
                    (~Holds(p) /\ runner[p].state = "Completed")
            /\ pc[p] = "returned" => (result[p] = produced[p] /\ queue[p] = <<>>)
            /\ pc[p] # "returned" => result[p] = <<>>

\* capacitive_pass returned a drained queue of two or more samples.
C9_Witness ==
    \E p \in Calls :
        /\ args[p].proc = "capacitive_pass"
        /\ pc[p] = "returned"
        /\ Len(result[p]) >= 2

\* C10: for a movers list of two or more nodes whose primary mover has a
\* nonzero speed, every step of the built group has the duration
\* |distance[primary] / speed[primary]|, the primary mover being the head
\* axis in movers when a pipette is among them and movers[0] otherwise.
C10_DurationFromPrimary ==
    (bOut.kind = "step" /\ Len(bIn.movers) >= 2
        /\ bIn.speed[PrimaryMover(bIn.movers)] # 0) =>
        \A ax \in DOMAIN bOut.step :
            bOut.step[ax].duration =
                AbsQuot(bIn.distance[PrimaryMover(bIn.movers)],
                        bIn.speed[PrimaryMover(bIn.movers)])

\* ------------------------------------------- the steps of a built group
Sgn(x) == IF x < 0 THEN -1 ELSE IF x > 0 THEN 1 ELSE 0

Negated(f) == [ax \in DOMAIN f |-> 0 - f[ax]]

\* |distance / speed| of one node of the arguments, taken on its own.
OwnDuration(ax) == AbsQuot(bIn.distance[ax], bIn.speed[ax])

\* C11: a group of two or more nodes that was built has no node whose own
\* |distance / speed| differs from the group's duration, a group with such
\* a node (as liquid_probe's [mount, tool] with differing ratios) being
\* rejected at construction.
C11_MismatchRejected ==
    (bOut.kind = "step" /\ Len(bIn.movers) >= 2) =>
        \A ax \in DOMAIN bOut.step :
            bIn.speed[ax] # 0 => OwnDuration(ax) = bOut.step[ax].duration

\* C12: for a single mover of any NodeId with a nonzero distance and a
\* nonzero speed, _build_pass_step returns a step whose duration is
\* |distance / speed|, whose velocity has the magnitude |speed| and whose
\* velocity sign is the direction sgn(distance) * sgn(speed).
C12_SingleMoverStep ==
    (bOut.kind # "pending" /\ Len(bIn.movers) = 1
        /\ bIn.distance[bIn.movers[1]] # 0 /\ bIn.speed[bIn.movers[1]] # 0) =>
        /\ bOut.kind = "step"
        /\ bOut.step[bIn.movers[1]].duration = OwnDuration(bIn.movers[1])
        /\ Abs(bOut.step[bIn.movers[1]].velocity) = Abs(bIn.speed[bIn.movers[1]])
        /\ Sgn(bOut.step[bIn.movers[1]].velocity) =
               Sgn(bIn.distance[bIn.movers[1]]) * Sgn(bIn.speed[bIn.movers[1]])

C14_StopLeavesNothing ==
    /\ msgState = "stopped" =>
        /\ Pending = {}
        /\ \A w \in stopTook.waiters : waiters[w] = "CancelledError"
        /\ listeners = {}
    /\ \A w \in WaiterIds :
        waiters[w] = "CancelledError" => w \in stopTook.waiters
    /\ scriptPc = "done" => msgState = "stopped"

\* A body that raised left a waiter and a subscription behind, and stop()
\* took both.
C14_Witness ==
    /\ scriptPc = "done"
    /\ scriptExit = "error"
    /\ msgState = "stopped"
    /\ stopTook.waiters # {}
    /\ stopTook.listeners # {}

\* -------------------------------------------------------- the gripper
\* The gripper a detection call handed back.
ReturnedGripper == IF gOut.out.ret = "attached" THEN gOut.before ELSE gOut.out.made

\* A request for a critical point that resolves to a calibration pin: by
\* override, or with no override by the attached probe.
ResolvesToPin(g, cp_override) ==
    \/ cp_override \in CalibrationPins
    \/ cp_override = "None" /\ g.attached_probe # "None"

\* C15: in every state of a gripper, whatever displacement assignments and
\* update_config_item calls came before, 0 <= current_jaw_displacement <=
\* _max_jaw_displacement() + 2 for the current config; an assignment outside
\* that range raises and leaves the stored displacement as it was.
C15_JawDisplacementInRange ==
    /\ gripper # NoGripper =>
        /\ gripper.current_jaw_displacement >= 0
        /\ 2 * gripper.current_jaw_displacement
               <= (gripper.config.jaw_sizes_mm.max
                   - gripper.config.jaw_sizes_mm.min) + 4
    /\ (gOut.op = "current_jaw_displacement" /\ gOut.raised # "none") =>
        gripper = gOut.before

\* The displacement lets the calibration pin be located: 0 < displacement
\* <= _max_jaw_displacement() - 1.
PinDisplacementOk(g) ==
    /\ 0 < g.current_jaw_displacement
    /\ 2 * g.current_jaw_displacement
           <= (g.config.jaw_sizes_mm.max - g.config.jaw_sizes_mm.min) - 2

\* C16: a critical_point request that resolves to a calibration pin (by the
\* attached probe or by override) returns a point exactly when a probe is
\* attached, the jaw state is GRIPPING and 0 < current_jaw_displacement <=
\* _max_jaw_displacement() - 1; in every other state it raises RuntimeError
\* and returns no point.
C16_CalibrationPinGuard ==
    (gOut.op = "critical_point"
        /\ ResolvesToPin(gOut.before, gOut.cp_override)) =>
        IF /\ gOut.before.attached_probe # "None"
           /\ gOut.before.state = "GRIPPING"
           /\ PinDisplacementOk(gOut.before)
        THEN gOut.out.raised = "none" /\ gOut.out.point # <<>>
        ELSE gOut.out.raised = "RuntimeError" /\ gOut.out.point = <<>>

\* A pin point was returned for a gripper with the FRONT probe and a
\* displacement of 1 mm.
C16_Witness ==
    /\ gOut.op = "critical_point"
    /\ ResolvesToPin(gOut.before, gOut.cp_override)
    /\ gOut.out.raised = "none"
    /\ gOut.before.attached_probe = "FRONT"
    /\ gOut.before.current_jaw_displacement = 1

\* C17: critical_point raises InvalidMoveError for an override of NOZZLE or
\* TIP in every gripper state, and for every other override that is neither
\* the jaw center, the XY center nor a calibration pin, with or without a
\* probe; the call leaves the gripper (state, probe, displacement, config)
\* as it was.
C17_InvalidOverrideRaises ==
    gOut.op = "critical_point" =>
        /\ gripper = gOut.before
        /\ gOut.cp_override \in {"NOZZLE", "TIP"} =>
               (gOut.out.raised = "InvalidMoveError" /\ gOut.out.point = <<>>)
        /\ gOut.cp_override \notin
               ({"None", "GRIPPER_JAW_CENTER", "XY_CENTER"} \cup CalibrationPins) =>
               (gOut.out.raised = "InvalidMoveError" /\ gOut.out.point = <<>>)

\* MOUNT was asked of a gripping gripper with a probe attached, and refused.
C17_Witness ==
    /\ gOut.op = "critical_point"
    /\ gOut.cp_override = "MOUNT"
    /\ gOut.before.attached_probe # "None"
    /\ gOut.before.state = "GRIPPING"
    /\ gOut.out.raised = "InvalidMoveError"

\* The point critical_point is to use: the override when one is given,
\* else the jaw center without a probe, the rear pin with the REAR probe
\* and the front pin with the FRONT probe.
SelectedCp(g, cp_override) ==
    IF cp_override # "None" THEN cp_override
    ELSE IF g.attached_probe = "None" THEN "GRIPPER_JAW_CENTER"
    ELSE IF g.attached_probe = "REAR" THEN "GRIPPER_REAR_CALIBRATION_PIN"
    ELSE "GRIPPER_FRONT_CALIBRATION_PIN"

MountToBase(g, offset_from_base) ==
    AddPoint(AddPoint(offset_from_base, g.config.base_offset_from_mount),
             g.calibration_offset)

\* C18: the point critical_point returns is that of the selected critical
\* point, an override taking precedence over the attached probe: the jaw
\* center offset for the jaw center and XY center, whatever the
\* displacement; the front pin offset plus the displacement on y; the rear
\* pin offset minus the displacement on y.
C18_SelectsJawCenterOrPin ==
    (gOut.op = "critical_point" /\ gOut.out.raised = "none") =>
        LET g == gOut.before
            cp == SelectedCp(g, gOut.cp_override)
            mm == g.current_jaw_displacement
        IN
        /\ cp \in {"GRIPPER_JAW_CENTER", "XY_CENTER"} \cup CalibrationPins
        /\ cp \in {"GRIPPER_JAW_CENTER", "XY_CENTER"} =>
            /\ gOut.out.point =
                   MountToBase(g, g.config.jaw_center_offset_from_base)
            /\ \A other \in 0..MaxJawInput :
                critical_point([g EXCEPT !.current_jaw_displacement = other],
                               gOut.cp_override).point = gOut.out.point
        /\ cp = "GRIPPER_FRONT_CALIBRATION_PIN" =>
            gOut.out.point =
                AddPoint(MountToBase(g, g.config.pin_one_offset_from_base),
                         <<0, mm, 0>>)
        /\ cp = "GRIPPER_REAR_CALIBRATION_PIN" =>
            gOut.out.point =
                SubPoint(MountToBase(g, g.config.pin_two_offset_from_base),
                         <<0, mm, 0>>)

\* With the FRONT probe attached, an override to the rear pin gave the rear
\* pin's point, the displacement subtracted.
C18_Witness ==
    /\ gOut.op = "critical_point"
    /\ gOut.before.attached_probe = "FRONT"
    /\ gOut.cp_override = "GRIPPER_REAR_CALIBRATION_PIN"
    /\ gOut.before.current_jaw_displacement = 1
    /\ gOut.out.raised = "none"
    /\ gOut.out.point = <<1, -4, 1>>

\* C19: when a gripper is attached, the freshly detected gripper has its
\* serial and a config that differs from the attached gripper's in some
\* field, the gripper compare_gripper_config_and_check_skip returns has the
\* freshly detected config.
C19_LoadsDifferingConfig ==
    (gOut.op = "compare"
        /\ gOut.before # NoGripper
        /\ gOut.fresh.config # NoConfig
        /\ gOut.fresh.id = gOut.before.gripper_id
        /\ gOut.fresh.config # gOut.before.config) =>
        /\ gOut.out.ret # "None"
        /\ ReturnedGripper.config = gOut.fresh.config

\* The serial the call compares: the detected id, or "" without one.
DetectedSerial == IF gOut.fresh.id = "None" THEN "" ELSE gOut.fresh.id

\* A config was detected for the gripper that is attached and it asks for
\* no reconfiguration.
SkipsReconfig ==
    /\ gOut.fresh.config # NoConfig
    /\ gOut.before # NoGripper
    /\ DetectedSerial = gOut.before.gripper_id
    /\ \A k \in RECONFIG_KEYS : gOut.fresh.config[k] = gOut.before.config[k]

InCall == rdCall.op \in {"read_and_save", "read_saved"}

\* A helper of the call failed: the reader, the role analysis or the
\* config analysis raised its error.
SomeHelperFailed == rdOut.cause \in HelperErrors

\* The files of the call that a save puts into the directory.
SavedFiles == {f \in SeqRange(rdCall.files) : IsMainFile(f) \/ IsLabwareFile(f)}

\* C20: a read_and_save or read_saved call in which file reading, role
\* analysis or config analysis fails ends by raising
\* ProtocolFilesInvalidError, and no other call raises; when it raised,
\* read_and_save has written nothing (it writes only after the three steps
\* passed), and read_saved writes nothing on any path.
C20_InvalidFilesWriteNothing ==
    InCall =>
        /\ SomeHelperFailed =>
            (rdPc = "raised" /\ rdOut.raised = "ProtocolFilesInvalidError")
        /\ rdPc = "raised" =>
            (SomeHelperFailed /\ rdDir = rdCall.dir_before)
        /\ rdPc = "returned" =>
            (rdOut.raised = "none" /\ Len(MainFilesOf(rdCall.files)) = 1)
        /\ rdCall.op = "read_saved" => rdDir = rdCall.dir_before
        /\ rdDir # rdCall.dir_before =>
            (rdCall.op = "read_and_save" /\ rdPc \in {"return", "returned"}
                /\ ~SomeHelperFailed)
        /\ rdPc \in {"return", "returned"} /\ rdCall.op = "read_and_save" =>
            rdDir = rdCall.dir_before \cup SavedFiles

\* After an earlier read_and_save wrote the main file, a read_and_save of
\* two new files whose config analysis fails raised and left the directory
\* as it was.
C20_Witness ==
    /\ rdPc = "raised"
    /\ rdCall.op = "read_and_save"
    /\ rdOut.cause = "ConfigAnalysisError"
    /\ rdCall.files = <<"proto2.json", "labware.json">>
    /\ rdOut.raised = "ProtocolFilesInvalidError"
    /\ rdDir = {"proto.json"}

Prevalidated == rdCall.op = "read_saved_prevalidated"
Finished == rdPc \in {"returned", "raised"}

AllJson == \A k \in DOMAIN rdCall.files : NameSuffix(rdCall.files[k]) = ".json"

\* The protocol-looking files among those of the call.
ProtocolLooking == SelectSeq(rdCall.files, LooksLikeProtocol)

\* The MAIN entries of the returned source.
MainEntries == {k \in DOMAIN rdOut.files : rdOut.files[k][2] = "MAIN"}

\* The returned files are the input files in the input order, one of them
\* MAIN and named by main_file, every other one LABWARE.
OneMainInInputOrder ==
    /\ Cardinality(MainEntries) = 1
    /\ Len(rdOut.files) = Len(rdCall.files)
    /\ \A k \in DOMAIN rdOut.files :
        /\ rdOut.files[k][1] = rdCall.files[k]
        /\ rdOut.files[k][2] = IF k \in MainEntries THEN "MAIN" ELSE "LABWARE"
        /\ k \in MainEntries => rdOut.main_file = rdOut.files[k][1]

\* The call went to read_saved and ended as read_saved ends: with its
\* ProtocolSource or with ProtocolFilesInvalidError, the loop never entered.
DelegatedToReadSaved ==
    /\ rdPc # "scan"
    /\ rdLocals.protocol_source_files = <<>>
    /\ rdPc = "returned" => rdOut = ReadSavedSource(rdCall.files)
    /\ rdPc = "raised" =>
        (rdOut.raised = "ProtocolFilesInvalidError" /\ rdOut.cause \in HelperErrors)
    /\ rdDir = rdCall.dir_before

\* C21: for JSON files that read_saved accepts (one main protocol file plus
\* labware files, in any order), read_saved_prevalidated returns, with the
\* main_file and the sequence of (path, role) entries that read_saved
\* returns for the same files.
C21_PrevalidatedLikeReadSaved ==
    (Prevalidated /\ Finished /\ AllJson /\ Len(ProtocolLooking) = 1) =>
        /\ rdPc = "returned"
        /\ rdOut.main_file = ReadSavedSource(rdCall.files).main_file
        /\ rdOut.files = ReadSavedSource(rdCall.files).files

\* C22, as claimed: with no file name ending in .py, a returned source has
\* one MAIN file named by main_file, the other input files LABWARE, in the
\* input order, and an input with no or several protocol-looking files
\* ends in an AssertionError; with a name ending in .py the call is that of
\* read_saved.
C22_PrevalidatedRoles ==
    Prevalidated =>
        IF \E k \in DOMAIN rdCall.files : NameSuffix(rdCall.files[k]) = ".py"
        THEN rdPc # "prevalidated" => DelegatedToReadSaved
        ELSE /\ rdPc = "returned" => OneMainInInputOrder
             /\ (Finished /\ Len(ProtocolLooking) # 1) =>
                    (rdPc = "raised" /\ rdOut.raised = "AssertionError")

\* C22, amended: the same with the ending taken as the code takes it, on
\* the lower-cased name: a name ending in .py, .PY or any other casing of
\* it sends the call to read_saved.
C22_PrevalidatedRolesLowerCased ==
    Prevalidated =>
        IF \E k \in DOMAIN rdCall.files :
               Lower(NameSuffix(rdCall.files[k])) = ".py"
        THEN rdPc # "prevalidated" => DelegatedToReadSaved
        ELSE /\ rdPc = "returned" => OneMainInInputOrder
             /\ (Finished /\ Len(ProtocolLooking) # 1) =>
                    (rdPc = "raised" /\ rdOut.raised = "AssertionError")

\* read_saved_prevalidated returned for a labware file followed by the
\* protocol: two entries in that order, the second one MAIN.
C22_Witness ==
    /\ Prevalidated
    /\ rdPc = "returned"
    /\ rdCall.files = <<"labware.json", "proto.json">>
    /\ rdOut.files = <<<<"labware.json", "LABWARE">>, <<"proto.json", "MAIN">>>>
    /\ rdOut.main_file = "proto.json"

\* ------------------------------------------- the liquid settings runner
\* The indices of the log at which the pipette was asked for one of ops.
IssuedAt(ops) == {i \in 1..Len(lqLog) : lqLog[i].op \in ops}

NoDispenseIssued == IssuedAt({"dispense", "dispense_all"}) = {}

NoAspirateIssued == IssuedAt({"aspirate"}) = {}

ExactlyOneSet ==
    (IsNone(lqCfg.aspirate) /\ ~IsNone(lqCfg.dispense))
        \/ (~IsNone(lqCfg.aspirate) /\ IsNone(lqCfg.dispense))

RunnerBuilt == lqPc \notin {"none", "config", "AssertionError"}

ConstructorDone == lqPc \notin {"none", "config"}

\* The constructor accepts exactly the configurations with one volume set,
\* and a runner never issues the operation it was not configured for.
OneSetAndNeverTheOther ==
    /\ ConstructorDone => (RunnerBuilt <=> ExactlyOneSet)
    /\ (RunnerBuilt /\ ~IsNone(lqCfg.aspirate)) => NoDispenseIssued
    /\ (RunnerBuilt /\ ~IsNone(lqCfg.dispense)) => NoAspirateIssued

\* C23, as claimed: a runner is built only when exactly one of aspirate and
\* dispense is set; a finished aspirate run issued the aspirate of the
\* configured volume and no dispense, a finished dispense run the dispense
\* of the configured volume and no aspirate, whatever the volume, 0 included.
C23_RunIssuesConfiguredOperation ==
    /\ OneSetAndNeverTheOther
    /\ (lqPc = "finished" /\ ~IsNone(lqCfg.aspirate))
           => \E i \in IssuedAt({"aspirate"}) :
                  lqLog[i].volume = lqCfg.aspirate[1]
    /\ (lqPc = "finished" /\ ~IsNone(lqCfg.dispense))
           => \E i \in IssuedAt({"dispense"}) :
                  lqLog[i].volume = lqCfg.dispense[1]

\* C23, amended: as claimed for every configured volume other than 0; a
\* runner configured with volume 0 issues neither an aspirate nor a
\* dispense.
C23_RunIssuesNonzeroOperation ==
    /\ OneSetAndNeverTheOther
    /\ (lqPc = "finished" /\ ~IsNone(lqCfg.aspirate) /\ lqCfg.aspirate[1] # 0)
           => \E i \in IssuedAt({"aspirate"}) :
                  lqLog[i].volume = lqCfg.aspirate[1]
    /\ (lqPc = "finished" /\ ~IsNone(lqCfg.dispense) /\ lqCfg.dispense[1] # 0)
           => \E i \in IssuedAt({"dispense"}) :
                  lqLog[i].volume = lqCfg.dispense[1]
    /\ (RunnerBuilt /\ (lqCfg.aspirate = Some(0) \/ lqCfg.dispense = Some(0)))
           => NoAspirateIssued /\ NoDispenseIssued

\* A run with aspirate 0.0 finished on a pipette holding liquid, with a wet
\* air gap configured, and nothing was aspirated or dispensed.
C23_Witness ==
    /\ lqPc = "finished"
    /\ lqCfg.aspirate = Some(0)
    /\ lqCfg.wet_air_gap_volume # 0
    /\ lqPip.current_volume > 0
    /\ NoAspirateIssued
    /\ NoDispenseIssued

\* C24: once _run_dispense was left, by return or by an error of either
\* dispense, the pipette's dispense flow rate equals the one it had when
\* _run_dispense was entered, and its aspirate and blow-out flow rates are
\* those it had then.
C24_DispenseRateRestored ==
    lqEntry.taken =>
        /\ PyEq(lqPip.flow_rate.dispense, lqEntry.flow_rate.dispense)
        /\ lqPip.flow_rate.aspirate = lqEntry.flow_rate.aspirate
        /\ lqPip.flow_rate.blow_out = lqEntry.flow_rate.blow_out

\* ------------------------------------------- the message kind registry
\* The kinds in the order the registry lists them.
KindsInOrder ==
    <<"echo", "ack", "ack_failed", "device_info_request",
      "device_info_response", "enter_bootloader_request",
      "enter_bootloader_response">>

PositionOf(kind) == CHOOSE i \in 1..Len(KindsInOrder) : KindsInOrder[i] = kind

MembersLookedUp == regIn.a # "none"

ValueLookedUp == regIn.wire >= 0

\* C25: whenever the ids of two kinds are taken, each is the kind's place
\* in echo, ack, ack_failed, device_info_request, device_info_response,
\* enter_bootloader_request, enter_bootloader_response counted from 0x00 (so
\* the same at every lookup), two different kinds have different ids, and a
\* value read back names the one kind that has it (none above 0x06).
C25_DiscriminatorsDistinctAndStable ==
    /\ MembersLookedUp =>
           /\ regOut.a = PositionOf(regIn.a) - 1
           /\ regOut.b = PositionOf(regIn.b) - 1
           /\ regIn.a # regIn.b => regOut.a # regOut.b
    /\ ValueLookedUp =>
           IF regIn.wire < Len(KindsInOrder)
           THEN regOut.member = KindsInOrder[regIn.wire + 1]
           ELSE regOut.member = "ValueError"

\* The ids of the last and the first kind were taken, and 0x03 was read
\* back as device_info_request.
C25_Witness ==
    /\ regIn.a = "enter_bootloader_response"
    /\ regOut.a = 6
    /\ regIn.b = "echo"
    /\ regOut.b = 0
    /\ regIn.wire = 3
    /\ regOut.member = "device_info_request"
====
